---- MODULE Spec2Model ----
(***************************************************************************)
(* Model of the data_ingestor component: the scope-prefix computation,     *)
(* the QdrantEmbedder store, the DataIngestor crawl and flat ingest, and   *)
(* the parser / embedder registries.                                       *)
(*                                                                         *)
(* Strings are tuples of one-character strings, so that endswith, rfind,   *)
(* startswith and slicing are computed as Python computes them.            *)
(***************************************************************************)
EXTENDS Integers, Sequences, FiniteSets, TLC

VARIABLES
    parserRegistry,     \* parsers._PARSER_REGISTRY: tags in insertion order
    embedderRegistry,   \* embedders._EMBEDDER_REGISTRY: tags in insertion order
    parsers,            \* DataIngestor._parsers: tag -> instance
    embedders,          \* DataIngestor._embedders: tag -> instance
    constructed,        \* instances constructed so far, in order
    collections,        \* the vector store: collection name -> [size, points]
    batch_size,         \* QdrantEmbedder.batch_size
    calls,              \* remote calls issued by the most recent store call
    pc,                 \* position of the running operation
    sources,            \* ingest(sources) / crawl(seeds) argument
    max_depth,          \* crawl argument
    source_type,        \* ingest / crawl argument
    store_type,         \* ingest / crawl argument
    collection,         \* ingest / crawl argument
    seed_prefixes,      \* crawl local
    queue,              \* crawl local: the frontier, deque of <<url, depth, prefix>>
    visited,            \* crawl local
    stored_total,       \* crawl local
    cur,                \* crawl local: the entry dequeued last
    documents,          \* ingest local
    result,             \* what the operation returned or raised
    fetchLog,           \* history: the fetch calls, in order: source and success
    storeLog,           \* history: the embedder.store calls made by ingest / crawl
    everStored,         \* history: collection name -> sources upserted into it so far
    sleeps,             \* history: number of time.sleep(delay) calls
    parserCalls,        \* history: the fetch / parse calls made by BaseParser.ingest
    threads,            \* concurrent callers of get_parser / get_embedder
    args,               \* main: the parsed command line
    mainCalls,          \* history: what main called, in order
    lastResponse,       \* history: what session.get yielded to the last fetch
    parser_config,      \* DataIngestor.config.get("html", {})
    exclude_elements,   \* HTMLParser.exclude_elements
    html,               \* the markup given to parse / extract_links
    web,                \* what every URL answers, or FreeWeb: any answer at any fetch
    config              \* DataIngestor.config: type tag -> sub-section

vars == <<parserRegistry, embedderRegistry, parsers, embedders, constructed,
          collections, batch_size, calls, pc, sources, max_depth, source_type,
          store_type, collection, seed_prefixes, queue, visited, stored_total,
          cur, documents, result, fetchLog, storeLog, everStored, sleeps,
          parserCalls, threads, args, mainCalls, lastResponse, parser_config,
          exclude_elements, html, web, config>>

registryVars == <<parserRegistry, embedderRegistry>>
cacheVars == <<parsers, embedders, constructed>>
remoteVars == <<collections, calls>>
argVars == <<sources, max_depth, source_type, store_type, collection>>
crawlVars == <<seed_prefixes, queue, visited, stored_total, cur>>
historyVars == <<fetchLog, storeLog, sleeps>>
callerVars == <<parserCalls, threads>>
mainVars == <<args, mainCalls>>
htmlVars == <<lastResponse, parser_config, exclude_elements, html>>

(***************************************************************************)
(* Bounds                                                                  *)
(***************************************************************************)
MaxSeedLen == 5
MaxSeeds == 2
MaxDepth == 2
MaxLinks == 2
MaxSources == 2
MaxDocs == 2
MaxBatch == 2
MaxThreads == 2
MaxPositional == 1
MaxLines == 2
MaxElements == 2

(***************************************************************************)
(* Python values                                                           *)
(***************************************************************************)
None == [none |-> TRUE]

NoResult == [kind |-> "none"]
Return(v) == [kind |-> "return", value |-> v]
Raise(f) == [kind |-> "raise", fault |-> f]

\* range(1, n+1) as a sequence-index set
Range(s) == {s[i] : i \in DOMAIN s}

\* all tuples over S of length at most n
SeqsUpTo(S, n) == UNION {[1..k -> S] : k \in 0..n}

\* str.endswith(c) for a one-character c
EndsWith(s, c) == Len(s) > 0 /\ s[Len(s)] = c

\* str.startswith(p)
StartsWith(s, p) == Len(p) <= Len(s) /\ SubSeq(s, 1, Len(p)) = p

\* str.rfind(c) for a one-character c: the highest 0-based index, -1 if none
RECURSIVE RFindFrom(_, _, _)
RFindFrom(s, c, i) ==
    IF i = 0 THEN -1
    ELSE IF s[i] = c THEN i - 1
    ELSE RFindFrom(s, c, i - 1)

RFind(s, c) == RFindFrom(s, c, Len(s))

\* s[:n]
SliceTo(s, n) == SubSeq(s, 1, IF n > Len(s) THEN Len(s) ELSE n)

(***************************************************************************)
(* DataIngestor.crawl: the scope prefix of one seed (ingestor.py 141-146)  *)
(***************************************************************************)
SeedPrefixNoSlice(seed) ==
    IF EndsWith(seed, "/") THEN seed
    ELSE LET idx == RFind(seed, "/")
         IN  IF idx >= 0 THEN SliceTo(seed, idx) ELSE seed

SeedPrefix(seed) ==
    IF EndsWith(seed, "/") THEN seed
    ELSE LET idx == RFind(seed, "/")
         IN  IF idx >= 0 THEN SliceTo(seed, idx + 1) ELSE seed

(***************************************************************************)
(* The URLs and pages of the modelled web                                  *)
(***************************************************************************)
Https == <<"h", "s", ":", "/", "/">>
Http == <<"h", ":", "/", "/">>

UrlIntro == Https \o <<"x", "/", "d", "/", "i">>     \* https://x/d/i
UrlDocs == Https \o <<"x", "/", "d", "/">>           \* https://x/d/
UrlElse == Https \o <<"x", "/", "e">>                \* https://x/e

Urls == {UrlIntro, UrlDocs, UrlElse}

Contents == {"", "body"}

\* parsers.base.ParsedDocument, reduced to the fields the stores key on
ParsedDocument(source, content) == [source |-> source, content |-> content]


CollectionNames == {"documents", "other"}

(***************************************************************************)
(* QdrantEmbedder (qdrant_embedder.py)                                     *)
(***************************************************************************)
\* the vector length the embedding model produces
EmbeddingDim == 384

\* TextEmbedding.embed of one text
Embedding(text) == [dim |-> EmbeddingDim, of |-> text]

\* hashlib.md5(source.encode()).hexdigest(): a pure function of source,
\* taken to be collision free on the modelled sources
GenerateIdConst(source) == <<"md5">>

GenerateId(source) == <<"md5">> \o source

GetCollectionsCall == [op |-> "get_collections"]
EmbedCall(texts) == [op |-> "embed", texts |-> texts]
CreateCollectionCall(name, size) == [op |-> "create_collection", name |-> name, size |-> size]
UpsertCall(name, points) == [op |-> "upsert", name |-> name, points |-> points]

\* _ensure_collection: the remote calls it issues against the store colls
EnsureCollectionCallsAlways(colls, name) ==
    <<GetCollectionsCall, EmbedCall(<<"test">>),
      CreateCollectionCall(name, Embedding("test").dim)>>

EnsureCollectionCalls(colls, name) ==
    <<GetCollectionsCall>> \o
    (IF name \notin DOMAIN colls
     THEN <<EmbedCall(<<"test">>), CreateCollectionCall(name, Embedding("test").dim)>>
     ELSE <<>>)

\* the points built from the documents (store, lines 112-126)
PointStruct(doc) ==
    [id |-> GenerateId(doc.source), vector |-> Embedding(doc.content), payload |-> doc]

Points(docs) == [i \in DOMAIN docs |-> PointStruct(docs[i])]

\* for i in range(0, len(points), batch_size): points[i:i + batch_size]
RECURSIVE BatchesFromShort(_, _, _)
BatchesFromShort(points, B, i) ==
    IF i >= Len(points) THEN <<>>
    ELSE <<SubSeq(points, i + 1, IF i + B - 1 > Len(points) THEN Len(points) ELSE i + B - 1)>>
         \o BatchesFromShort(points, B, i + B)

RECURSIVE BatchesFrom(_, _, _)
BatchesFrom(points, B, i) ==
    IF i >= Len(points) THEN <<>>
    ELSE <<SubSeq(points, i + 1, IF i + B > Len(points) THEN Len(points) ELSE i + B)>>
         \o BatchesFrom(points, B, i + B)

Batches(points, B) == BatchesFrom(points, B, 0)

\* stored_count += len(batch), over the batches
StoredCountDistinct(batches) ==
    Cardinality(UNION {{batch[i].id : i \in DOMAIN batch} : batch \in Range(batches)})

RECURSIVE StoredCount(_)
StoredCount(batches) ==
    IF batches = <<>> THEN 0
    ELSE Len(Head(batches)) + StoredCount(Tail(batches))

\* the remote calls store issues when nothing fails
StorePlanEager(docs, name, colls, B) ==
    EnsureCollectionCalls(colls, name)
    \o (IF docs = <<>> THEN <<>>
        ELSE <<EmbedCall([i \in DOMAIN docs |-> docs[i].content])>>
             \o [k \in DOMAIN Batches(Points(docs), B) |->
                    UpsertCall(name, Batches(Points(docs), B)[k])])

StorePlan(docs, name, colls, B) ==
    IF docs = <<>> THEN <<>>
    ELSE EnsureCollectionCalls(colls, name)
         \o <<EmbedCall([i \in DOMAIN docs |-> docs[i].content])>>
         \o [k \in DOMAIN Batches(Points(docs), B) |->
                UpsertCall(name, Batches(Points(docs), B)[k])]

\* the vector store after an upsert of points: insert or overwrite by id
RECURSIVE UpsertPoints(_, _)
UpsertPoints(pts, points) ==
    IF points = <<>> THEN pts
    ELSE LET p == Head(points)
             next == [i \in DOMAIN pts \cup {p.id} |->
                         IF i = p.id THEN [vector |-> p.vector, payload |-> p.payload]
                         ELSE pts[i]]
         IN  UpsertPoints(next, Tail(points))

\* the vector store after one remote call
ApplyCall(colls, call) ==
    IF call.op = "create_collection"
    THEN [n \in DOMAIN colls \cup {call.name} |->
             IF n = call.name THEN [size |-> call.size, points |-> <<>>] ELSE colls[n]]
    ELSE IF call.op = "upsert"
    THEN [n \in DOMAIN colls |->
             IF n = call.name
             THEN [size |-> colls[n].size, points |-> UpsertPoints(colls[n].points, call.points)]
             ELSE colls[n]]
    ELSE colls

RECURSIVE ApplyCalls(_, _)
ApplyCalls(colls, cs) ==
    IF cs = <<>> THEN colls ELSE ApplyCalls(ApplyCall(colls, Head(cs)), Tail(cs))

\* sources carried by the upsert calls of cs, in order
RECURSIVE UpsertedSources(_)
UpsertedSources(cs) ==
    IF cs = <<>> THEN <<>>
    ELSE (IF Head(cs).op = "upsert"
          THEN [i \in DOMAIN Head(cs).points |-> Head(cs).points[i].payload.source]
          ELSE <<>>)
         \o UpsertedSources(Tail(cs))

\* QdrantEmbedder.store(documents, collection_name) against the store colls,
\* where the fault-th remote call raises (0: none does).  Yields the calls
\* issued, the store afterwards and what store returned or raised.
StoreAtomic(docs, name, colls, B, fault) ==
    LET plan == StorePlan(docs, name, colls, B)
        fails == fault \in 1..Len(plan)
        done == IF fails THEN SubSeq(plan, 1, fault - 1) ELSE plan
    IN  [calls |-> IF fails THEN SubSeq(plan, 1, fault) ELSE plan,
         collections |-> IF fails THEN colls ELSE ApplyCalls(colls, done),
         upserted |-> UpsertedSources(done),
         result |-> IF fails
                    THEN Raise([type |-> "StoreFault", call |-> plan[fault].op])
                    ELSE Return(StoredCount(Batches(Points(docs), B)))]

Store(docs, name, colls, B, fault) ==
    LET plan == StorePlan(docs, name, colls, B)
        fails == fault \in 1..Len(plan)
        done == IF fails THEN SubSeq(plan, 1, fault - 1) ELSE plan
    IN  [calls |-> IF fails THEN SubSeq(plan, 1, fault) ELSE plan,
         collections |-> ApplyCalls(colls, done),
         upserted |-> UpsertedSources(done),
         result |-> IF fails
                    THEN Raise([type |-> "StoreFault", call |-> plan[fault].op])
                    ELSE Return(StoredCount(Batches(Points(docs), B)))]

\* the remote calls a store call can fail at
StoreFaults(docs, name, colls, B) == 0..Len(StorePlan(docs, name, colls, B))

(***************************************************************************)
(* The registries (parsers/__init__.py, embedders/__init__.py)             *)
(***************************************************************************)
\* a registry is the dict as a sequence of entries, in insertion order
Entry(tag, cls) == [tag |-> tag, cls |-> cls]
Keys(registry) == [i \in DOMAIN registry |-> registry[i].tag]
Lookup(registry, tag) == (CHOOSE e \in Range(registry) : e.tag = tag).cls

\* what _discover_parsers registers: html_parser.HTMLParser
DiscoveredParsers == <<Entry("html", "HTMLParser")>>

\* what _discover_embedders registers: qdrant_embedder.QdrantEmbedder, or
\* nothing when the import of the module fails (the failure is only logged)
EmbedderDiscoveries == {<<>>, <<Entry("qdrant", "QdrantEmbedder")>>}

ValueError(text, tag, available) ==
    [type |-> "ValueError", text |-> text, tag |-> tag, available |-> available]

\* parsers.get_parser_class(source_type)
GetParserClassSilent(registry, tag) ==
    IF tag \notin Range(Keys(registry))
    THEN Return(None)
    ELSE Return(Lookup(registry, tag))

GetParserClass(registry, tag) ==
    IF tag \notin Range(Keys(registry))
    THEN Raise(ValueError("Unsupported source type", tag, Keys(registry)))
    ELSE Return(Lookup(registry, tag))

\* embedders._discover_embedders run again by a lookup on an empty registry;
\* rediscovered is what that run registers
Rediscover(registry, rediscovered) ==
    IF registry = <<>> THEN rediscovered ELSE registry

\* embedders.get_embedder_class(store_type), on the registry after the
\* rediscovery
GetEmbedderClassSilent(registry, tag) ==
    IF tag \notin Range(Keys(registry))
    THEN Return(None)
    ELSE Return(Lookup(registry, tag))

GetEmbedderClass(registry, tag) ==
    IF tag \notin Range(Keys(registry))
    THEN Raise(ValueError("Unknown store type", tag, Keys(registry)))
    ELSE Return(Lookup(registry, tag))

(***************************************************************************)
(* DataIngestor.get_parser / get_embedder (ingestor.py 48-62)              *)
(***************************************************************************)
\* _load_config when the file is missing or empty: {}
NoConfig == <<>>

\* a sub-section of the configuration: keyword arguments in order, each
\* <<name, value>>, or YAML's null
NullSection == [null |-> TRUE, kwargs |-> <<>>]
Section(kwargs) == [null |-> FALSE, kwargs |-> kwargs]

\* self.config.get(tag, {})
ConfigGetDefault(cfg, tag) == Section(<<>>)

ConfigGet(cfg, tag) == IF tag \in DOMAIN cfg THEN cfg[tag] ELSE Section(<<>>)

\* the keyword parameters of the constructors
Parameters(cls) ==
    IF cls = "HTMLParser" THEN {"user_agent", "timeout", "exclude_elements"}
    ELSE {"model_name", "batch_size"}

\* cls(**section): the serial-th instance, or the TypeError of a call with a
\* null mapping or an unexpected keyword
Construct(cls, serial, section) ==
    IF section.null \/ \E i \in DOMAIN section.kwargs :
                          section.kwargs[i][1] \notin Parameters(cls)
    THEN Raise([type |-> "TypeError"])
    ELSE Return([cls |-> cls, serial |-> serial, kwargs |-> section.kwargs])

\* cache[tag] = instance
Cached(cache, tag, instance) ==
    [t \in DOMAIN cache \cup {tag} |-> IF t = tag THEN instance ELSE cache[t]]

\* get-or-create on a cache, given what the class lookup yields on a miss
GetOrCreate(cache, made, tag, classResult) ==
    IF tag \in DOMAIN cache
    THEN [result |-> Return(cache[tag]), cache |-> cache, constructed |-> made]
    ELSE IF classResult.kind = "raise"
    THEN [result |-> classResult, cache |-> cache, constructed |-> made]
    ELSE LET instance == Construct(classResult.value, Len(made) + 1, ConfigGet(config, tag))
         IN  IF instance.kind = "raise"
             THEN [result |-> instance, cache |-> cache, constructed |-> made]
             ELSE [result |-> instance,
                   cache |-> Cached(cache, tag, instance.value),
                   constructed |-> Append(made, instance.value)]

(***************************************************************************)
(* HTMLParser (html_parser.py)                                             *)
(***************************************************************************)
\* a page: its text and the href values of its anchors, in document order
Page(body, hrefs) == [body |-> body, hrefs |-> hrefs]
EmptyPage == Page("", <<>>)

UrlFragment == UrlDocs \o <<"#", "f">>               \* https://x/d/#f
UrlMail == <<"m", ":", "x">>                          \* mailto:x
Hrefs == Urls \cup {UrlFragment, UrlMail}

Pages == {EmptyPage} \cup {Page("body", h) : h \in SeqsUpTo(Hrefs, MaxLinks)}

\* what session.get yields: a transport error, or a response
TransportError == [error |-> "RequestException"]
Response(status, text) == [status |-> status, text |-> text]
Responses ==
    {TransportError}
    \cup {Response(200, page) : page \in Pages}
    \cup {Response(status, EmptyPage) : status \in {304, 404, 500}}

\* Response.raise_for_status raises for 4xx and 5xx
RaisesForStatus(status) == status >= 400 /\ status < 600

\* HTMLParser.fetch, given what session.get yields
Fetch(response) ==
    IF response = TransportError THEN None
    ELSE IF RaisesForStatus(response.status) THEN None
    ELSE response.text

\* HTMLParser.parse(content, source)
Parse(content, source) == ParsedDocument(source, content.body)

\* urllib.parse.urldefrag(url)[0]: the url up to its first "#"
RECURSIVE UrlDefrag(_)
UrlDefrag(url) ==
    IF url = <<>> \/ Head(url) = "#" THEN <<>>
    ELSE <<Head(url)>> \o UrlDefrag(Tail(url))

\* the href starts with a scheme: a ":" with no "/" or "#" before it
HasScheme(href) ==
    \E i \in 2..Len(href) :
        href[i] = ":" /\ \A j \in 1..(i - 1) : href[j] \notin {"/", "#", ":"}

\* scheme://netloc of an absolute URL
Origin(url) ==
    LET slashes == {i \in 1..(Len(url) - 1) : url[i] = "/" /\ url[i + 1] = "/"}
        start == IF slashes = {} THEN 0
                 ELSE 1 + CHOOSE i \in slashes : \A j \in slashes : i <= j
        ends == {k \in (start + 1)..Len(url) : url[k] = "/"}
    IN  IF ends = {} THEN url
        ELSE SubSeq(url, 1, (CHOOSE k \in ends : \A j \in ends : k <= j) - 1)

\* the URL up to and including the last "/" of its path
Directory(url) ==
    IF Len(Origin(url)) = Len(url) THEN url \o <<"/">>
    ELSE SliceTo(url, RFind(url, "/") + 1)

\* urllib.parse.urljoin(base, href), for hrefs without "..", "?" and "//"
UrlJoin(base, href) ==
    IF href = <<>> THEN base
    ELSE IF HasScheme(href) THEN href
    ELSE IF Head(href) = "#" THEN UrlDefrag(base) \o href
    ELSE IF Head(href) = "/" THEN Origin(base) \o href
    ELSE Directory(UrlDefrag(base)) \o href

\* HTMLParser.extract_links: the loop over the anchors from the i-th on,
\* links being the list built so far
RECURSIVE ExtractFromRepeating(_, _, _, _)
ExtractFromRepeating(hrefs, base, i, links) ==
    IF i > Len(hrefs) THEN links
    ELSE LET url == UrlDefrag(UrlJoin(base, hrefs[i]))
         IN  IF StartsWith(url, Http) \/ StartsWith(url, Https)
             THEN ExtractFromRepeating(hrefs, base, i + 1, Append(links, url))
             ELSE ExtractFromRepeating(hrefs, base, i + 1, links)

RECURSIVE ExtractFrom(_, _, _, _)
ExtractFrom(hrefs, base, i, links) ==
    IF i > Len(hrefs) THEN links
    ELSE LET url == UrlDefrag(UrlJoin(base, hrefs[i]))
         IN  IF url \notin Range(links) /\ (StartsWith(url, Http) \/ StartsWith(url, Https))
             THEN ExtractFrom(hrefs, base, i + 1, Append(links, url))
             ELSE ExtractFrom(hrefs, base, i + 1, links)

ExtractLinks(page, base) == ExtractFrom(page.hrefs, base, 1, <<>>)

(***************************************************************************)
(* Values of the state that an operation leaves untouched                  *)
(***************************************************************************)
EmptyStore == <<>>
StoreWith(name) == [n \in {name} |-> [size |-> EmbeddingDim, points |-> <<>>]]
InitialStores == {EmptyStore, StoreWith("documents")}

NothingStored == [n \in CollectionNames |-> {}]

\* everStored after a store call that upserted the sources ups into name
Remember(ever, name, ups) ==
    [n \in CollectionNames |-> IF n = name THEN ever[n] \cup Range(ups) ELSE ever[n]]

\* one entry of fetchLog: the source, and whether fetch returned content
FetchEntry(source, content) == [source |-> source, ok |-> content # None]

\* the sources of the fetch calls, in order
Fetched(log) == [i \in DOMAIN log |-> log[i].source]

\* one entry of storeLog
StoreEntry(docs, name, res) == [documents |-> docs, collection |-> name, result |-> res]

IdleRegistries ==
    /\ parserRegistry = DiscoveredParsers
    /\ embedderRegistry = <<Entry("qdrant", "QdrantEmbedder")>>

IdleCaches ==
    /\ parsers = <<>>
    /\ embedders = <<>>
    /\ constructed = <<>>
    /\ threads = <<>>
    /\ config = NoConfig

IdleCrawl ==
    /\ seed_prefixes = <<>>
    /\ queue = <<>>
    /\ visited = {}
    /\ stored_total = 0
    /\ cur = <<>>

\* the environment answers any fetch in any way
FreeWeb == [free |-> TRUE, pages |-> <<>>]

\* every URL answers as pages says, whenever it is fetched
FixedWeb(pages) == [free |-> FALSE, pages |-> pages]

IdleMain ==
    /\ args = None
    /\ mainCalls = <<>>

IdleHtml ==
    /\ lastResponse = None
    /\ parser_config = [given |-> FALSE, list |-> <<>>]
    /\ exclude_elements = None
    /\ html = None

IdleHistory ==
    /\ fetchLog = <<>>
    /\ storeLog = <<>>
    /\ sleeps = 0
    /\ parserCalls = <<>>

(***************************************************************************)
(* SpecStore: QdrantEmbedder.store called again and again on one embedder  *)
(***************************************************************************)
StoreDocs == {ParsedDocument(UrlIntro, "body"), ParsedDocument(UrlDocs, "")}

InitStore ==
    /\ pc = "embedder"
    /\ collections \in InitialStores
    /\ batch_size \in 1..MaxBatch
    /\ calls = <<>>
    /\ documents = <<>>
    /\ collection = "documents"
    /\ result = NoResult
    /\ everStored = NothingStored
    /\ sources = <<>> /\ max_depth = 0 /\ source_type = "html" /\ store_type = "qdrant"
    /\ IdleRegistries /\ IdleCaches /\ IdleCrawl /\ IdleHistory /\ IdleMain /\ IdleHtml /\ web = FreeWeb

\* embedder.store(docs, name)
StoreCall ==
    \E docs \in SeqsUpTo(StoreDocs, MaxDocs), name \in {"documents"} :
      \E fault \in StoreFaults(docs, name, collections, batch_size) :
        LET out == Store(docs, name, collections, batch_size, fault)
        IN  /\ pc \in {"embedder", "stored"}
            /\ pc' = "stored"
            /\ documents' = docs
            /\ collection' = name
            /\ calls' = out.calls
            /\ collections' = out.collections
            /\ result' = out.result
            /\ everStored' = Remember(everStored, name, out.upserted)
            /\ UNCHANGED <<batch_size, sources, max_depth, source_type, store_type>>
            /\ UNCHANGED <<registryVars, cacheVars, crawlVars, historyVars>>
            /\ UNCHANGED <<callerVars, mainVars, htmlVars, web, config>>

NextStore == StoreCall

SpecStore == InitStore /\ [][NextStore]_vars

\* remote calls of one kind among cs
CallsOf(cs, op) == SelectSeq(cs, LAMBDA c : c.op = op)

\* the documents carried by a sequence of upsert calls, in order
RECURSIVE CarriedDocs(_)
CarriedDocs(ups) ==
    IF ups = <<>> THEN <<>>
    ELSE [i \in DOMAIN Head(ups).points |-> Head(ups).points[i].payload]
         \o CarriedDocs(Tail(ups))

\* C5: after any sequence of store calls, every collection holds exactly one
\* record per distinct source ever upserted into it, so storing a source
\* again leaves the record count unchanged.
C5_IdempotentStorage ==
    \A n \in CollectionNames :
        IF n \in DOMAIN collections
        THEN LET pts == collections[n].points
             IN  /\ Cardinality(DOMAIN pts) = Cardinality(everStored[n])
                 /\ \A src \in everStored[n] :
                        Cardinality({i \in DOMAIN pts : pts[i].payload.source = src}) = 1
        ELSE everStored[n] = {}

\* one source was upserted twice, by two upsert calls, and the collection
\* holds one record for it next to the record of another source
C5_Witness ==
    /\ pc = "stored"
    /\ batch_size = 1
    /\ documents = <<ParsedDocument(UrlIntro, "body"), ParsedDocument(UrlIntro, "body")>>
    /\ result = Return(2)
    /\ everStored["documents"] = {UrlIntro, UrlDocs}
    /\ Cardinality(DOMAIN collections["documents"].points) = 2

\* C6: a store call of N documents with batch size B that returns has issued
\* ceil(N/B) upserts of at most B points each, which together carry the
\* documents once each in input order, and it returns N.
C6_Batching ==
    (pc = "stored" /\ result.kind = "return") =>
        LET N == Len(documents)
            ups == CallsOf(calls, "upsert")
        IN  /\ Len(ups) = (N + batch_size - 1) \div batch_size
            /\ \A k \in DOMAIN ups : Len(ups[k].points) <= batch_size
            /\ CarriedDocs(ups) = documents
            /\ result.value = N

\* two documents stored with batch size 1: two upserts
C6_Witness ==
    /\ pc = "stored" /\ result.kind = "return"
    /\ Len(documents) = 2 /\ batch_size = 1
    /\ Len(CallsOf(calls, "upsert")) = 2

\* C7: a store call with an empty document list returns 0, issues no remote
\* call at all and leaves the vector store as it was.
C7_EmptyStoreNoCalls ==
    [][(pc' = "stored" /\ documents' = <<>>) =>
          (result' = Return(0) /\ calls' = <<>> /\ collections' = collections)]_vars

\* an empty store call made on a store lacking the collection
C7_Witness ==
    /\ pc = "stored" /\ documents = <<>> /\ result = Return(0)
    /\ "documents" \notin DOMAIN collections

\* the positions in cs of the remote calls of one kind
PositionsOf(cs, op) == {i \in DOMAIN cs : cs[i].op = op}

\* C20: a store call with a non-empty document list calls create_collection
\* only when the collection name is absent from the store, then once, right
\* after the collection listing and the probe embedding, with the length of
\* the probe embedding as vector size, and before every upsert; a call that
\* reaches an upsert with the name absent has created the collection; when
\* the collection exists create_collection is not called.
C20_CollectionCreatedWhenAbsent ==
    [][(pc' = "stored" /\ documents' # <<>>) =>
          LET creates == PositionsOf(calls', "create_collection")
              upserts == PositionsOf(calls', "upsert")
              absent == collection' \notin DOMAIN collections
          IN  /\ ~absent => creates = {}
              /\ (absent /\ upserts # {}) => creates # {}
              /\ Cardinality(creates) <= 1
              /\ \A i \in creates :
                    /\ absent
                    /\ i = 3
                    /\ calls'[1] = GetCollectionsCall
                    /\ calls'[2] = EmbedCall(<<"test">>)
                    /\ calls'[i].name = collection'
                    /\ calls'[i].size = Embedding("test").dim
                    /\ \A j \in upserts : i < j
                    /\ result'.kind = "return" =>
                          collections'[collection'].size = calls'[i].size]_vars

\* a store call of one document found no collection, created it with the
\* probe's vector size and upserted into it
C20_Witness ==
    /\ pc = "stored"
    /\ Len(documents) = 1
    /\ result = Return(1)
    /\ calls[3] = CreateCollectionCall("documents", EmbeddingDim)
    /\ calls[5].op = "upsert"
    /\ collections["documents"].size = EmbeddingDim

(***************************************************************************)
(* SpecPrefix: the scope-prefix loop of crawl, run on arbitrary seeds      *)
(***************************************************************************)
SeedChars == {"/", ":", "x"}
SeedStrings == SeqsUpTo(SeedChars, MaxSeedLen)

InitPrefix ==
    /\ pc = "prefixes"
    /\ sources \in {<<seed>> : seed \in SeedStrings}
    /\ max_depth = 0 /\ source_type = "html" /\ store_type = "qdrant"
    /\ collection = "documents"
    /\ collections = EmptyStore /\ calls = <<>> /\ batch_size = 1
    /\ documents = <<>> /\ result = NoResult /\ everStored = NothingStored
    /\ IdleRegistries /\ IdleCaches /\ IdleCrawl /\ IdleHistory /\ IdleMain /\ IdleHtml /\ web = FreeWeb

\* crawl, lines 141-146: one iteration of "for seed in seeds"
PrefixStep ==
    /\ pc = "prefixes"
    /\ Len(seed_prefixes) < Len(sources)
    /\ seed_prefixes' = Append(seed_prefixes, SeedPrefix(sources[Len(seed_prefixes) + 1]))
    /\ UNCHANGED <<pc, queue, visited, stored_total, cur, documents, result>>
    /\ UNCHANGED <<registryVars, cacheVars, remoteVars, argVars, historyVars,
                   batch_size, everStored>>
    /\ UNCHANGED <<callerVars, mainVars, htmlVars, web, config>>

NextPrefix == PrefixStep

SpecPrefix == InitPrefix /\ [][NextPrefix]_vars

SourceTypes == {"html", "nonexistent"}
StoreTypes == {"qdrant", "nonexistent"}

\* --depth takes any integer
Depths == (-1)..MaxDepth

InitCrawl ==
    /\ pc = "crawl"
    /\ sources \in SeqsUpTo(Urls, MaxSeeds)
    /\ max_depth \in Depths
    /\ source_type \in SourceTypes
    /\ store_type \in StoreTypes
    /\ collection = "documents"
    /\ collections = EmptyStore /\ calls = <<>> /\ batch_size = MaxBatch
    /\ parserRegistry = DiscoveredParsers
    /\ embedderRegistry \in EmbedderDiscoveries
    /\ documents = <<>> /\ result = NoResult /\ everStored = NothingStored
    /\ IdleCaches /\ IdleCrawl /\ IdleHistory /\ IdleMain /\ IdleHtml /\ web = FreeWeb

\* lines 131-132: parser = self.get_parser(...); embedder = self.get_embedder(...)
CrawlBegin ==
    /\ pc = "crawl"
    /\ LET gp == GetOrCreate(parsers, constructed, source_type,
                             GetParserClass(parserRegistry, source_type))
       IN  IF gp.result.kind = "raise"
           THEN /\ pc' = "raised"
                /\ result' = gp.result
                /\ UNCHANGED <<registryVars, cacheVars>>
           ELSE \E rediscovered \in EmbedderDiscoveries :
                  LET registry == IF store_type \in DOMAIN embedders
                                  THEN embedderRegistry
                                  ELSE Rediscover(embedderRegistry, rediscovered)
                      ge == GetOrCreate(embedders, gp.constructed, store_type,
                                        GetEmbedderClass(registry, store_type))
                  IN  /\ parsers' = gp.cache
                      /\ embedders' = ge.cache
                      /\ constructed' = ge.constructed
                      /\ embedderRegistry' = registry
                      /\ UNCHANGED parserRegistry
                      /\ IF ge.result.kind = "raise"
                         THEN pc' = "raised" /\ result' = ge.result
                         ELSE pc' = "prefixes" /\ UNCHANGED result
    /\ UNCHANGED <<remoteVars, argVars, crawlVars, historyVars, batch_size,
                   everStored, documents>>
    /\ UNCHANGED <<callerVars, mainVars, htmlVars, web, config>>

\* lines 148-150: the frontier holds the seeds at depth 0
QueueInit ==
    /\ pc = "prefixes"
    /\ Len(seed_prefixes) = Len(sources)
    /\ queue' = [i \in DOMAIN sources |-> <<sources[i], 0, seed_prefixes[i]>>]
    /\ visited' = {}
    /\ stored_total' = 0
    /\ pc' = "loop"
    /\ UNCHANGED <<seed_prefixes, cur, documents, result>>
    /\ UNCHANGED <<registryVars, cacheVars, remoteVars, argVars, historyVars,
                   batch_size, everStored>>
    /\ UNCHANGED <<callerVars, mainVars, htmlVars, web, config>>

\* line 154: if url in visited: continue
AlreadyVisitedNever(url, seen) == FALSE

AlreadyVisited(url, seen) == url \in seen

\* line 153: what queue.popleft() leaves in the deque
PopLeftKeeps(q) == q

PopLeft(q) == Tail(q)

\* line 156: visited.add(url)
MarkVisitedLater(seen, url) == seen

MarkVisited(seen, url) == seen \cup {url}

\* lines 153-156: popleft, the visited guard, visited.add
Dequeue ==
    /\ pc = "loop"
    /\ queue # <<>>
    /\ cur' = Head(queue)
    /\ queue' = PopLeft(queue)
    /\ IF AlreadyVisited(Head(queue)[1], visited)
       THEN pc' = "loop" /\ UNCHANGED visited
       ELSE pc' = "fetch" /\ visited' = MarkVisited(visited, Head(queue)[1])
    /\ UNCHANGED <<seed_prefixes, stored_total, documents, result>>
    /\ UNCHANGED <<registryVars, cacheVars, remoteVars, argVars, historyVars,
                   batch_size, everStored>>
    /\ UNCHANGED <<callerVars, mainVars, htmlVars, web, config>>

\* line 167: isinstance(parser, HTMLParser)
IsHtmlParserAlways(parser) == TRUE

IsHtmlParser(parser) == parser.cls = "HTMLParser"

\* line 167: depth < max_depth and isinstance(parser, HTMLParser)
FollowsLinksInclusive(depth, limit, parser) == depth <= limit /\ IsHtmlParser(parser)

FollowsLinks(depth, limit, parser) == depth < limit /\ IsHtmlParser(parser)

\* line 170: link not in visited
NotVisitedOrSeen(link, seen) == TRUE

NotVisited(link, seen) == link \notin seen

\* line 170: link not in visited and link.startswith(prefix)
EnqueuesAnywhere(link, seen, prefix) == link \notin seen

Enqueues(link, seen, prefix) == NotVisited(link, seen) /\ StartsWith(link, prefix)

\* line 171: the entry (link, depth + 1, prefix) of a discovered link
ChildEntryRescoped(link, depth, prefix) == <<link, depth + 1, SeedPrefix(link)>>

ChildEntry(link, depth, prefix) == <<link, depth + 1, prefix>>

\* lines 169-171: the entries appended for the links of one page
NewEntries(links, seen, depth, prefix) ==
    LET kept == SelectSeq(links, LAMBDA link : Enqueues(link, seen, prefix))
    IN  [i \in DOMAIN kept |-> ChildEntry(kept[i], depth, prefix)]

\* line 171: queue.append, entry by entry
ExtendLeft(q, entries) == entries \o q

Extend(q, entries) == q \o entries

\* line 173: if len(visited) > 1
DelayDueFromFirst(seen) == Cardinality(seen) > 0

DelayDue(seen) == Cardinality(seen) > 1

\* line 164 is in no try block: where crawl is after embedder.store
CrawlAfterStoreCaught(res) == "loop"

CrawlAfterStore(res) == IF res.kind = "raise" THEN "raised" ELSE "loop"

\* line 165: total_stored += stored
AccumulateLatest(total, stored) == stored

Accumulate(total, stored) == total + stored

\* what session.get(url) can yield
AnswersTo(url) == IF web.free THEN Responses ELSE {web.pages[url]}

\* lines 158-174: fetch, parse, store, enqueue the links, sleep
Process ==
    /\ pc = "fetch"
    /\ \E response \in AnswersTo(cur[1]) :
         LET url == cur[1]
             depth == cur[2]
             prefix == cur[3]
             page == Fetch(response)
             doc == Parse(page, url)
         IN  /\ fetchLog' = Append(fetchLog, FetchEntry(url, page))
             /\ IF page = None
                THEN /\ pc' = "loop"
                     /\ UNCHANGED <<queue, stored_total, result, remoteVars,
                                    storeLog, everStored, sleeps>>
                ELSE \E fault \in StoreFaults(<<doc>>, collection, collections, batch_size) :
                       LET out == Store(<<doc>>, collection, collections, batch_size, fault)
                       IN  /\ collections' = out.collections
                           /\ calls' = out.calls
                           /\ everStored' = Remember(everStored, collection, out.upserted)
                           /\ storeLog' = Append(storeLog, StoreEntry(<<doc>>, collection, out.result))
                           /\ IF out.result.kind = "raise"
                              THEN /\ pc' = CrawlAfterStore(out.result)
                                   /\ result' = out.result
                                   /\ UNCHANGED <<queue, stored_total, sleeps>>
                              ELSE /\ pc' = CrawlAfterStore(out.result)
                                   /\ stored_total' = Accumulate(stored_total, out.result.value)
                                   /\ queue' =
                                        IF FollowsLinks(depth, max_depth, parsers[source_type])
                                        THEN Extend(queue,
                                                    NewEntries(ExtractLinks(page, url),
                                                               visited, depth, prefix))
                                        ELSE queue
                                   /\ sleeps' = IF DelayDue(visited)
                                                THEN sleeps + 1 ELSE sleeps
                                   /\ UNCHANGED result
    /\ UNCHANGED <<seed_prefixes, visited, cur, documents>>
    /\ UNCHANGED <<registryVars, cacheVars, argVars, batch_size>>
    /\ UNCHANGED <<callerVars, mainVars, htmlVars, web, config>>

\* lines 176-177: the frontier is empty
CrawlReturn ==
    /\ pc = "loop"
    /\ queue = <<>>
    /\ pc' = "done"
    /\ result' = Return(stored_total)
    /\ UNCHANGED <<seed_prefixes, queue, visited, stored_total, cur, documents>>
    /\ UNCHANGED <<registryVars, cacheVars, remoteVars, argVars, historyVars,
                   batch_size, everStored>>
    /\ UNCHANGED <<callerVars, mainVars, htmlVars, web, config>>

NextCrawl == CrawlBegin \/ PrefixStep \/ QueueInit \/ Dequeue \/ Process \/ CrawlReturn

SpecCrawl == InitCrawl /\ [][NextCrawl]_vars

NoDuplicates(seq) == \A i, j \in DOMAIN seq : i # j => seq[i] # seq[j]

\* the sources of the documents passed to embedder.store, in order
RECURSIVE LoggedSources(_)
LoggedSources(log) ==
    IF log = <<>> THEN <<>>
    ELSE [i \in DOMAIN Head(log).documents |-> Head(log).documents[i].source]
         \o LoggedSources(Tail(log))

\* C1: in a crawl run no URL is fetched twice and no URL is passed to the
\* embedder's store twice, whatever the seeds and the links are.
C1_VisitedUniqueness ==
    /\ NoDuplicates(Fetched(fetchLog))
    /\ NoDuplicates(LoggedSources(storeLog))

\* a run seeded with the same URL twice has ended, the URL stored
C1_Witness ==
    /\ pc = "done"
    /\ sources = <<UrlIntro, UrlIntro>>
    /\ LoggedSources(storeLog) = <<UrlIntro>>

\* C13: in a crawl run a URL is in the visited set from its dequeue on, before
\* its fetch is attempted; a failed fetch stores nothing, raises nothing and
\* leaves the frontier as it was for the run to go on with; and no URL is
\* fetched a second time.
C13_FailedFetchSkipped ==
    /\ [](pc = "fetch" =>
            /\ cur[1] \in visited
            /\ cur[1] \notin Range(Fetched(fetchLog)))
    /\ [](Range(Fetched(fetchLog)) \subseteq visited /\ NoDuplicates(Fetched(fetchLog)))
    /\ [][(fetchLog' # fetchLog /\ ~fetchLog'[Len(fetchLog')].ok) =>
            /\ storeLog' = storeLog
            /\ collections' = collections
            /\ stored_total' = stored_total
            /\ result' = result
            /\ queue' = queue
            /\ pc' = "loop"]_vars

\* the fetch of the first seed failed, the second seed was fetched and
\* stored after it, and the run returned 1
C13_Witness ==
    /\ pc = "done"
    /\ sources = <<UrlIntro, UrlElse>>
    /\ fetchLog = <<FetchEntry(UrlIntro, None), FetchEntry(UrlElse, EmptyPage)>>
    /\ LoggedSources(storeLog) = <<UrlElse>>
    /\ result = Return(1)

\* C14: in a crawl run every pass of the loop that ends with more than one
\* URL visited (the entry stored, its fetch failed, or the entry discarded as
\* already visited) applies the delay once.
C14_DelayAfterEveryDequeue ==
    [][(/\ pc' = "loop"
        /\ pc = "fetch" \/ (pc = "loop" /\ queue' # queue)
        /\ Cardinality(visited') > 1) => sleeps' = sleeps + 1]_vars

\* C15: in a crawl run no delay is applied while at most one URL is visited,
\* and a crawl of a single seed with max_depth 0 applies no delay at all.
C15_NoDelayForFirstUrl ==
    /\ Cardinality(visited) <= 1 => sleeps = 0
    /\ (Len(sources) = 1 /\ max_depth = 0) => sleeps = 0

\* a crawl of one seed with max_depth 0 stored the seed and returned
\* without a delay
C15_Witness ==
    /\ pc = "done"
    /\ sources = <<UrlIntro>>
    /\ max_depth = 0
    /\ LoggedSources(storeLog) = <<UrlIntro>>
    /\ sleeps = 0

\* crawl is one sequential loop: while a step is possible the next one is taken
SpecCrawlFair == SpecCrawl /\ WF_vars(NextCrawl)

\* C18: every crawl run ends: either the frontier becomes empty and crawl
\* returns its count, or a lookup or store fault has ended the run; no link
\* graph, max_depth or pattern of fetch failures keeps the loop going forever.
C18_CrawlTerminates ==
    <>(\/ pc = "done" /\ queue = <<>> /\ result = Return(stored_total)
       \/ pc = "raised")

\* a crawl of depth 2 in which two pages linked to the same third page has
\* discarded the second frontier entry for it and returned
C18_Witness ==
    /\ pc = "done"
    /\ queue = <<>>
    /\ sources = <<UrlElse>>
    /\ max_depth = 2
    /\ Fetched(fetchLog) = <<UrlElse, UrlIntro, UrlDocs>>
    /\ cur[1] = UrlDocs /\ cur[2] = 2

(***************************************************************************)
(* SpecWeb: crawl runs over a web that is fixed for the run, so that what   *)
(* is reachable from a seed can be told                                     *)
(***************************************************************************)
UrlGuide == Https \o <<"x", "/", "g">>               \* https://x/g

WebUrls == Urls \cup {UrlGuide}

\* a URL answers 404, or with a page of at most one link
WebAnswers ==
    {Response(404, EmptyPage), Response(200, EmptyPage)}
    \cup {Response(200, Page("body", <<url>>)) : url \in WebUrls}

\* https://x/g is a page without links
Webs ==
    {FixedWeb(pages) : pages \in
        {f \in [WebUrls -> WebAnswers] : f[UrlGuide] = Response(200, EmptyPage)}}

\* https://x/d/i has the scope https://x/d/, https://x/e the scope https://x/
WebSeeds == SeqsUpTo({UrlIntro, UrlElse}, MaxSeeds) \ {<<>>}

InitWeb ==
    /\ pc = "crawl"
    /\ web \in Webs
    /\ sources \in WebSeeds
    /\ max_depth \in 0..MaxDepth
    /\ source_type = "html" /\ store_type = "qdrant"
    /\ collection = "documents"
    /\ collections = EmptyStore /\ calls = <<>> /\ batch_size = MaxBatch
    /\ documents = <<>> /\ result = NoResult /\ everStored = NothingStored
    /\ IdleRegistries /\ IdleCaches /\ IdleCrawl /\ IdleHistory /\ IdleMain /\ IdleHtml

SpecWeb == InitWeb /\ [][NextCrawl]_vars

\* the links of the page at url, none when its fetch fails
LinksOf(url) ==
    LET page == Fetch(web.pages[url])
    IN  IF page = None THEN {} ELSE Range(ExtractLinks(page, url))

\* the URLs reached from the set from by chains of at most k links, every
\* URL on a chain starting with prefix and every page on it fetched
RECURSIVE ReachWithin(_, _, _)
ReachWithin(from, prefix, k) ==
    IF k <= 0 THEN from
    ELSE ReachWithin(from \cup {link \in UNION {LinksOf(url) : url \in from} :
                                   StartsWith(link, prefix)},
                     prefix, k - 1)

\* C26: when a crawl run has returned, every URL that a chain of at most
\* max_depth links leads to from a seed, all of them under that seed's
\* prefix and through successfully fetched pages, has been fetched.
C26_ReachableFetched ==
    (pc = "done" /\ ~web.free) =>
        \A i \in DOMAIN sources :
            ReachWithin({sources[i]}, SeedPrefix(sources[i]), max_depth)
                \subseteq Range(Fetched(fetchLog))

\* a step of the loop body that fetched cur's URL
ProcessStep == pc = "fetch" /\ fetchLog' # fetchLog

\* the entries the step appended to the frontier
Added == SubSeq(queue', Len(queue) + 1, Len(queue'))

\* the step left the entries the frontier had where they were
KeepsFrontier == Len(queue') >= Len(queue) /\ SubSeq(queue', 1, Len(queue)) = queue

\* the URLs of a sequence of entries, in order
EntryUrls(entries) == [i \in DOMAIN entries |-> entries[i][1]]

\* C27 as stated: at no point in a crawl run does the frontier hold two entries
\* with the same URL.
C27_Original == NoDuplicates(EntryUrls(queue))

\* C27: duplicate suppression at enqueue time is per page: the entries appended
\* for the links of one page have pairwise different URLs. The frontier as a
\* whole can hold one URL more than once (a repeated seed, links of different
\* pages that converge before the URL is dequeued).
C27_EnqueueSuppression ==
    [][ProcessStep => KeepsFrontier /\ NoDuplicates(EntryUrls(Added))]_vars

\* the links of two pages have converged: the frontier holds the same
\* discovered URL twice
C27_Witness ==
    /\ pc = "loop"
    /\ Len(queue) = 2
    /\ queue[1][1] = queue[2][1]
    /\ queue[1][2] = 1 /\ queue[2][2] = 1

\* C28: in a crawl run the visited set only grows; no link is enqueued whose
\* URL is in the visited set at enqueue time, so a page's link to itself is
\* never enqueued; and a dequeued entry whose URL is visited is dropped before
\* any fetch, parse or store.
C28_VisitedMonotone ==
    /\ [][visited \subseteq visited']_vars
    /\ [][ProcessStep =>
            /\ KeepsFrontier
            /\ \A i \in DOMAIN Added :
                 Added[i][1] \notin visited /\ Added[i][1] # cur[1]]_vars
    /\ [][(pc = "loop" /\ queue # <<>> /\ Head(queue)[1] \in visited) =>
            (pc' # "fetch" /\ fetchLog' = fetchLog /\ storeLog' = storeLog)]_vars

\* the page of the only seed links to itself, within depth and scope; the run
\* has ended having fetched it once
C28_Witness ==
    /\ pc = "done"
    /\ ~web.free
    /\ sources = <<UrlElse>>
    /\ max_depth >= 1
    /\ LinksOf(UrlElse) = {UrlElse}
    /\ Fetched(fetchLog) = <<UrlElse>>

\* the depths of a sequence of entries never decrease
DepthsAscend(entries) ==
    \A i, j \in DOMAIN entries : i < j => entries[i][2] <= entries[j][2]

\* C29: the frontier is first-in first-out: a step either takes its first
\* entry or appends behind its last; so the depths of the entries dequeued one
\* after the other never decrease, and when a URL is fetched no entry for it
\* with a smaller depth exists.
C29_Fifo ==
    /\ [][\/ queue' = queue
          \/ queue # <<>> /\ queue' = Tail(queue) /\ cur' = Head(queue)
          \/ KeepsFrontier /\ cur' = cur]_vars
    /\ [][(cur # <<>> /\ cur' # cur) => cur'[2] >= cur[2]]_vars
    /\ [](DepthsAscend(queue))
    /\ [](pc = "fetch" =>
            \A i \in DOMAIN queue : queue[i][2] >= cur[2])

\* a URL is being fetched at depth 1 while the frontier holds a later entry
\* for it at depth 2
C29_Witness ==
    /\ pc = "fetch"
    /\ cur[2] = 1
    /\ \E i \in DOMAIN queue : queue[i][1] = cur[1] /\ queue[i][2] = 2

\* C30: every entry appended for a discovered link has its parent's prefix and
\* its parent's depth plus one; so the prefix of every frontier entry is the
\* prefix of one of the seeds.
C30_InheritedScope ==
    /\ [][ProcessStep =>
            /\ KeepsFrontier
            /\ \A i \in DOMAIN Added :
                 Added[i][2] = cur[2] + 1 /\ Added[i][3] = cur[3]]_vars
    /\ [](\A i \in DOMAIN queue : queue[i][3] \in Range(seed_prefixes))

\* the frontier holds a discovered link whose prefix is not the one its own
\* URL would give
C30_Witness ==
    /\ pc = "loop"
    /\ \E i \in DOMAIN queue :
         /\ queue[i][2] >= 1
         /\ queue[i][3] # SeedPrefix(queue[i][1])

\* C2 as stated: no frontier entry has a depth greater than max_depth.
C2_Original == \A i \in DOMAIN queue : queue[i][2] <= max_depth

\* C2, amended: no frontier entry has a depth greater than max(max_depth, 0)
\* (the seeds enter at depth 0 whatever max_depth is, links only at depths
\* up to max_depth), and with max_depth <= 0 only seeds are fetched.
C2_DepthBound ==
    /\ \A i \in DOMAIN queue :
          queue[i][2] <= (IF max_depth >= 0 THEN max_depth ELSE 0)
    /\ max_depth <= 0 => Range(Fetched(fetchLog)) \subseteq Range(sources)

\* a link was enqueued at the deepest level allowed, and a run with
\* max_depth 0 stored a seed and ended
C2_Witness ==
    /\ max_depth = 1
       /\ \E i \in DOMAIN queue : queue[i][2] = 1
    \/ /\ max_depth = 0 /\ pc = "done" /\ storeLog # <<>>

\* C3: every document passed to store in a crawl run has a source that
\* starts with the scope prefix of the frontier entry being processed, and
\* a crawl seeded at https://x/d/i stores nothing outside https://x/d/.
C3_ScopeContainment ==
    /\ [][storeLog' # storeLog =>
            /\ cur' = cur
            /\ StartsWith(storeLog'[Len(storeLog')].documents[1].source, cur[3])]_vars
    /\ [](sources = <<UrlIntro>> =>
            \A i \in DOMAIN LoggedSources(storeLog) :
                StartsWith(LoggedSources(storeLog)[i], UrlDocs))

\* the crawl seeded at https://x/d/i followed a link and stored https://x/d/
C3_Witness ==
    /\ sources = <<UrlIntro>>
    /\ LoggedSources(storeLog) = <<UrlIntro, UrlDocs>>

(***************************************************************************)
(* SpecIngest: one run of DataIngestor.ingest (ingestor.py 64-103)         *)
(***************************************************************************)
\* BaseParser.ingest(source), given what session.get yields (base.py 94-98)
ParserIngestFalsy(response, source) ==
    LET content == Fetch(response)
    IN  IF content = None \/ content.body = "" THEN None ELSE Parse(content, source)

ParserIngest(response, source) ==
    LET content == Fetch(response)
    IN  IF content = None THEN None ELSE Parse(content, source)

InitIngest ==
    /\ pc = "ingest"
    /\ sources \in SeqsUpTo(Urls, MaxSources)
    /\ max_depth = 0
    /\ source_type \in SourceTypes
    /\ store_type \in StoreTypes
    /\ collection = "documents"
    /\ collections \in InitialStores /\ calls = <<>> /\ batch_size \in 1..MaxBatch
    /\ parserRegistry = DiscoveredParsers
    /\ embedderRegistry \in EmbedderDiscoveries
    /\ documents = <<>> /\ result = NoResult /\ everStored = NothingStored
    /\ IdleCaches /\ IdleCrawl /\ IdleHistory /\ IdleMain /\ IdleHtml /\ web = FreeWeb

\* line 83: parser = self.get_parser(source_type)
IngestBegin ==
    /\ pc = "ingest"
    /\ LET gp == GetOrCreate(parsers, constructed, source_type,
                             GetParserClass(parserRegistry, source_type))
       IN  /\ parsers' = gp.cache
           /\ constructed' = gp.constructed
           /\ IF gp.result.kind = "raise"
              THEN pc' = "raised" /\ result' = gp.result
              ELSE pc' = "sources" /\ UNCHANGED result
    /\ UNCHANGED <<registryVars, embedders, remoteVars, argVars, crawlVars,
                   historyVars, batch_size, everStored, documents>>
    /\ UNCHANGED <<callerVars, mainVars, htmlVars, web, config>>

\* line 90: if doc
IsTruthyContent(doc) == doc # None /\ doc.content # ""

IsTruthy(doc) == doc # None

\* line 91: documents.append(doc)
AppendDocumentFirst(docs, doc) == <<doc>> \o docs

AppendDocument(docs, doc) == Append(docs, doc)

\* lines 87-93: one iteration of "for source in sources"
IngestStep ==
    /\ pc = "sources"
    /\ Len(fetchLog) < Len(sources)
    /\ \E response \in Responses :
         LET source == sources[Len(fetchLog) + 1]
             doc == ParserIngest(response, source)
         IN  /\ fetchLog' = Append(fetchLog, FetchEntry(source, Fetch(response)))
             /\ documents' = IF IsTruthy(doc) THEN AppendDocument(documents, doc)
                             ELSE documents
    /\ sleeps' = IF Len(sources) > 1 THEN sleeps + 1 ELSE sleeps
    /\ UNCHANGED <<pc, result, storeLog, everStored, batch_size>>
    /\ UNCHANGED <<registryVars, cacheVars, remoteVars, argVars, crawlVars>>
    /\ UNCHANGED <<callerVars, mainVars, htmlVars, web, config>>

\* line 95: if not documents
NoDocumentsNever(docs) == FALSE

NoDocuments(docs) == docs = <<>>

\* lines 95-103: return 0, or get the embedder, store the batch and return
IngestFinish ==
    /\ pc = "sources"
    /\ Len(fetchLog) = Len(sources)
    /\ IF NoDocuments(documents)
       THEN /\ pc' = "done"
            /\ result' = Return(0)
            /\ UNCHANGED <<registryVars, cacheVars, remoteVars, storeLog, everStored>>
       ELSE \E rediscovered \in EmbedderDiscoveries :
              LET registry == IF store_type \in DOMAIN embedders
                              THEN embedderRegistry
                              ELSE Rediscover(embedderRegistry, rediscovered)
                  ge == GetOrCreate(embedders, constructed, store_type,
                                    GetEmbedderClass(registry, store_type))
              IN  /\ embedders' = ge.cache
                  /\ constructed' = ge.constructed
                  /\ embedderRegistry' = registry
                  /\ UNCHANGED <<parserRegistry, parsers>>
                  /\ IF ge.result.kind = "raise"
                     THEN /\ pc' = "raised"
                          /\ result' = ge.result
                          /\ UNCHANGED <<remoteVars, storeLog, everStored>>
                     ELSE \E fault \in StoreFaults(documents, collection, collections, batch_size) :
                            LET out == Store(documents, collection, collections, batch_size, fault)
                            IN  /\ collections' = out.collections
                                /\ calls' = out.calls
                                /\ everStored' = Remember(everStored, collection, out.upserted)
                                /\ storeLog' = Append(storeLog,
                                                      StoreEntry(documents, collection, out.result))
                                /\ result' = out.result
                                /\ pc' = IF out.result.kind = "raise" THEN "raised" ELSE "done"
    /\ UNCHANGED <<argVars, crawlVars, fetchLog, sleeps, batch_size, documents>>
    /\ UNCHANGED <<callerVars, mainVars, htmlVars, web, config>>

NextIngest == IngestBegin \/ IngestStep \/ IngestFinish

SpecIngest == InitIngest /\ [][NextIngest]_vars

\* the sources whose fetch returned content, in the order fetched
FetchedOk(log) == Fetched(SelectSeq(log, LAMBDA e : e.ok))

\* C8: in flat ingest a source whose fetch fails contributes no document and
\* raises nothing, every source is attempted, and a run in which no fetch
\* succeeds returns 0 without any call of the embedder's store.
C8_FetchFailureTolerance ==
    /\ [i \in DOMAIN documents |-> documents[i].source] = FetchedOk(fetchLog)
    /\ (pc = "sources" \/ pc = "done" \/ storeLog # <<>>) =>
          Fetched(fetchLog) = SubSeq(sources, 1, Len(fetchLog))
    /\ (pc = "done" \/ storeLog # <<>>) => Len(fetchLog) = Len(sources)
    /\ (Len(fetchLog) = Len(sources) /\ pc \notin {"ingest", "sources"}
          /\ source_type = "html" /\ FetchedOk(fetchLog) = <<>>) =>
          /\ pc = "done"
          /\ result = Return(0)
          /\ storeLog = <<>>
          /\ calls = <<>>

\* both fetches of a run failed, the second attempted after the first
\* failure, and the run returned 0
C8_Witness ==
    /\ pc = "done"
    /\ Len(sources) = 2
    /\ ~fetchLog[1].ok /\ ~fetchLog[2].ok
    /\ result = Return(0)

\* C9: flat ingest calls the embedder's store at most once, only after all
\* fetches, with the parsed documents in source order; a run that returns
\* with documents has called it exactly once and returns what it returned.
C9_SingleStoreCall ==
    /\ Len(storeLog) <= 1
    /\ storeLog # <<>> =>
          /\ Len(fetchLog) = Len(sources)
          /\ storeLog[1].documents = documents
          /\ [i \in DOMAIN documents |-> documents[i].source] = FetchedOk(fetchLog)
          /\ result = storeLog[1].result
    /\ (pc = "done" /\ FetchedOk(fetchLog) # <<>>) =>
          /\ Len(storeLog) = 1
          /\ result.kind = "return"

\* two sources were both fetched and stored in one call
C9_Witness ==
    /\ pc = "done"
    /\ sources = <<UrlElse, UrlIntro>>
    /\ Len(storeLog) = 1
    /\ LoggedSources(storeLog) = <<UrlElse, UrlIntro>>
    /\ result = Return(2)

\* C16: in flat ingest with one source no delay is applied, and with N > 1
\* sources every delay lies between two consecutive fetches, so that once
\* all N sources are fetched at most N - 1 delays have been applied.
C16_DelayBetweenFetches ==
    /\ Len(sources) <= 1 => sleeps = 0
    /\ (Len(sources) > 1 /\ Len(fetchLog) = Len(sources)) =>
          sleeps <= Len(fetchLog) - 1

(***************************************************************************)
(* SpecRegistry: lookups on the registries and on one DataIngestor         *)
(***************************************************************************)
Tags == {"html", "qdrant", "pdf", "nonexistent"}

\* the sub-sections a configuration file can hold under a type tag
Sections ==
    {NullSection, Section(<<>>), Section(<< <<"user_agent", "bot">> >>),
     Section(<< <<"model_name", "small">> >>)}

\* yaml.safe_load(f) or {}: sub-sections under some of the registered tags
Configs == UNION {[tags -> Sections] : tags \in SUBSET {"html", "qdrant"}}

InitRegistry ==
    /\ pc = "idle"
    /\ parserRegistry = DiscoveredParsers
    /\ embedderRegistry \in EmbedderDiscoveries
    /\ config \in Configs
    /\ parsers = <<>> /\ embedders = <<>> /\ constructed = <<>> /\ threads = <<>>
    /\ sources = <<>> /\ max_depth = 0 /\ source_type = "html" /\ store_type = "qdrant"
    /\ collection = "documents"
    /\ collections = EmptyStore /\ calls = <<>> /\ batch_size = 1
    /\ documents = <<>> /\ result = NoResult /\ everStored = NothingStored
    /\ IdleCrawl /\ IdleHistory /\ IdleMain /\ IdleHtml /\ web = FreeWeb

\* parsers.get_parser_class(tag)
GetParserClassCall ==
    \E tag \in Tags :
        /\ pc' = "get_parser_class"
        /\ source_type' = tag
        /\ result' = GetParserClass(parserRegistry, tag)
        /\ UNCHANGED <<registryVars, cacheVars, remoteVars, sources, max_depth,
                       store_type, collection, crawlVars, historyVars, batch_size,
                       everStored, documents>>
        /\ UNCHANGED <<callerVars, mainVars, htmlVars, web, config>>

\* embedders.get_embedder_class(tag)
GetEmbedderClassCall ==
    \E tag \in Tags, rediscovered \in EmbedderDiscoveries :
        /\ pc' = "get_embedder_class"
        /\ store_type' = tag
        /\ embedderRegistry' = Rediscover(embedderRegistry, rediscovered)
        /\ result' = GetEmbedderClass(embedderRegistry', tag)
        /\ UNCHANGED <<parserRegistry, cacheVars, remoteVars, sources, max_depth,
                       source_type, collection, crawlVars, historyVars, batch_size,
                       everStored, documents>>
        /\ UNCHANGED <<callerVars, mainVars, htmlVars, web, config>>

\* parsers.supported_types()
SupportedTypesCall ==
    /\ pc' = "supported_types"
    /\ result' = Return(Keys(parserRegistry))
    /\ UNCHANGED <<registryVars, cacheVars, remoteVars, argVars, crawlVars,
                   historyVars, batch_size, everStored, documents>>
    /\ UNCHANGED <<callerVars, mainVars, htmlVars, web, config>>

\* embedders.supported_stores()
SupportedStoresCall ==
    \E rediscovered \in EmbedderDiscoveries :
        /\ pc' = "supported_stores"
        /\ embedderRegistry' = Rediscover(embedderRegistry, rediscovered)
        /\ result' = Return(Keys(embedderRegistry'))
        /\ UNCHANGED <<parserRegistry, cacheVars, remoteVars, argVars, crawlVars,
                       historyVars, batch_size, everStored, documents>>
        /\ UNCHANGED <<callerVars, mainVars, htmlVars, web, config>>

\* DataIngestor.get_parser(tag)
GetParserCall ==
    \E tag \in Tags :
        LET gp == GetOrCreate(parsers, constructed, tag, GetParserClass(parserRegistry, tag))
        IN  /\ pc' = "get_parser"
            /\ source_type' = tag
            /\ parsers' = gp.cache
            /\ constructed' = gp.constructed
            /\ result' = gp.result
            /\ UNCHANGED <<registryVars, embedders, remoteVars, sources, max_depth,
                           store_type, collection, crawlVars, historyVars, batch_size,
                           everStored, documents>>
            /\ UNCHANGED <<callerVars, mainVars, htmlVars, web, config>>

\* DataIngestor.get_embedder(tag)
GetEmbedderCall ==
    \E tag \in Tags, rediscovered \in EmbedderDiscoveries :
        LET registry == IF tag \in DOMAIN embedders
                        THEN embedderRegistry
                        ELSE Rediscover(embedderRegistry, rediscovered)
            ge == GetOrCreate(embedders, constructed, tag, GetEmbedderClass(registry, tag))
        IN  /\ pc' = "get_embedder"
            /\ store_type' = tag
            /\ embedderRegistry' = registry
            /\ embedders' = ge.cache
            /\ constructed' = ge.constructed
            /\ result' = ge.result
            /\ UNCHANGED <<parserRegistry, parsers, remoteVars, sources, max_depth,
                           source_type, collection, crawlVars, historyVars, batch_size,
                           everStored, documents>>
            /\ UNCHANGED <<callerVars, mainVars, htmlVars, web, config>>

NextRegistry ==
    \/ GetParserClassCall
    \/ GetEmbedderClassCall
    \/ SupportedTypesCall
    \/ SupportedStoresCall
    \/ GetParserCall
    \/ GetEmbedderCall

SpecRegistry == InitRegistry /\ [][NextRegistry]_vars

\* what a class lookup of tag in registry must yield: the registered class,
\* or a fault naming the tag and listing the registered tags
LookupYields(res, registry, tag) ==
    IF \E i \in DOMAIN registry : registry[i].tag = tag
    THEN \E i \in DOMAIN registry :
            registry[i].tag = tag /\ res = Return(registry[i].cls)
    ELSE /\ res.kind = "raise"
         /\ res.fault.type = "ValueError"
         /\ res.fault.tag = tag
         /\ res.fault.available = [i \in DOMAIN registry |-> registry[i].tag]

\* C10: a parser-class or embedder-class lookup of an unregistered tag raises
\* a fault that names the tag and lists the registered tags, and a lookup of
\* a registered tag returns the registered class.
C10_UnknownTagFault ==
    /\ pc = "get_parser_class" => LookupYields(result, parserRegistry, source_type)
    /\ pc = "get_embedder_class" => LookupYields(result, embedderRegistry, store_type)

\* an embedder-class lookup of an unregistered tag raised, listing qdrant
C10_Witness ==
    /\ pc = "get_embedder_class"
    /\ store_type = "nonexistent"
    /\ result = Raise(ValueError("Unknown store type", "nonexistent", <<"qdrant">>))

(***************************************************************************)
(* SpecRun: one run of crawl or of flat ingest, as main starts either       *)
(* (ingestor.py 227-241)                                                    *)
(***************************************************************************)
InitRun == InitCrawl \/ InitIngest

NextRun == NextCrawl \/ NextIngest

SpecRun == InitRun /\ [][NextRun]_vars

\* C19: when a store call of a crawl or ingest run raises a vector-store
\* fault, the run ends raising that fault, no run that had a store fault
\* returns a count, and after a fault the run takes no further step (no
\* fetch, no store).
C19_StoreFaultPropagates ==
    /\ [][(storeLog' # storeLog /\ storeLog'[Len(storeLog')].result.kind = "raise") =>
            /\ pc' = "raised"
            /\ result' = storeLog'[Len(storeLog')].result]_vars
    /\ [][pc # "raised"]_vars
    /\ [](pc = "raised" => result.kind = "raise")
    /\ [](pc = "done" => \A i \in DOMAIN storeLog : storeLog[i].result.kind = "return")

\* a crawl run was ended by a fault of the second store call's upsert, with
\* an entry still in the frontier
C19_Witness ==
    /\ pc = "raised"
    /\ Len(storeLog) = 2
    /\ result = Raise([type |-> "StoreFault", call |-> "upsert"])
    /\ result = storeLog[2].result
    /\ queue # <<>>
    /\ stored_total = 1

\* the tag no discovery ever registers
Unregistered(tag) == tag = "nonexistent"

\* C11: a run of ingest or crawl given an unregistered source type or store
\* type performs no fetch and no store and never returns normally: the
\* lookup fault is raised before any of them.
C11_UnknownTypeHaltsFirst ==
    /\ (Unregistered(source_type) \/ Unregistered(store_type)) =>
          /\ fetchLog = <<>>
          /\ storeLog = <<>>
          /\ pc # "done"
    /\ (result.kind = "raise" /\ result.fault.type = "ValueError") =>
          /\ fetchLog = <<>>
          /\ storeLog = <<>>

(***************************************************************************)
(* SpecParser: BaseParser.ingest called on one HTMLParser (base.py 84-98)   *)
(***************************************************************************)
\* one entry of parserCalls
FetchCall(source, returned) ==
    [op |-> "fetch", source |-> source, returned |-> returned]
ParseCall(content, source, returned) ==
    [op |-> "parse", content |-> content, source |-> source, returned |-> returned]

\* the parser methods BaseParser.ingest calls, in order (base.py 94-98)
ParserIngestCalls(response, source) ==
    LET content == Fetch(response)
    IN  IF content = None
        THEN <<FetchCall(source, None)>>
        ELSE <<FetchCall(source, content),
               ParseCall(content, source, Parse(content, source))>>

InitParser ==
    /\ pc = "parser"
    /\ sources = <<>> /\ max_depth = 0 /\ source_type = "html" /\ store_type = "qdrant"
    /\ collection = "documents"
    /\ collections = EmptyStore /\ calls = <<>> /\ batch_size = 1
    /\ documents = <<>> /\ result = NoResult /\ everStored = NothingStored
    /\ IdleRegistries /\ IdleCaches /\ IdleCrawl /\ IdleHistory /\ IdleMain /\ IdleHtml /\ web = FreeWeb

\* parser.ingest(source)
ParserIngestCall ==
    \E source \in Hrefs, response \in Responses :
        /\ pc = "parser"
        /\ pc' = "ingested"
        /\ sources' = <<source>>
        /\ lastResponse' = response
        /\ parserCalls' = ParserIngestCalls(response, source)
        /\ result' = Return(ParserIngest(response, source))
        /\ UNCHANGED <<registryVars, cacheVars, remoteVars, max_depth, source_type,
                       store_type, collection, crawlVars, fetchLog, storeLog, sleeps,
                       batch_size, everStored, documents, threads, mainVars,
                       parser_config, exclude_elements, html, web, config>>

\* parser.fetch(source)
ParserFetchCall ==
    \E source \in Hrefs, response \in Responses :
        /\ pc = "parser"
        /\ pc' = "fetched"
        /\ sources' = <<source>>
        /\ lastResponse' = response
        /\ parserCalls' = <<>>
        /\ result' = Return(Fetch(response))
        /\ UNCHANGED <<registryVars, cacheVars, remoteVars, max_depth, source_type,
                       store_type, collection, crawlVars, fetchLog, storeLog, sleeps,
                       batch_size, everStored, documents, threads, mainVars,
                       parser_config, exclude_elements, html, web, config>>

NextParser == ParserIngestCall \/ ParserFetchCall

SpecParser == InitParser /\ [][NextParser]_vars

\* a 2xx response
IsSuccess(got) == got # TransportError /\ got.status >= 200 /\ got.status < 300

\* C22: HTMLParser.fetch returns the response text for a 2xx response and
\* absent for a transport error and for every other status; it never raises.
C22_FetchOnlySuccess ==
    pc = "fetched" =>
        /\ result.kind = "return"
        /\ result.value = IF IsSuccess(lastResponse) THEN lastResponse.text ELSE None

\* C12: a parser's ingest(source) calls fetch(source) first; when fetch
\* returns absent it returns absent and parse is not called; otherwise it
\* calls parse(fetched content, source) and returns what parse returns; it
\* returns absent only when fetch did.
C12_IngestFetchThenParse ==
    pc = "ingested" =>
        /\ parserCalls # <<>>
        /\ parserCalls[1].op = "fetch"
        /\ parserCalls[1].source = sources[1]
        /\ IF parserCalls[1].returned = None
           THEN /\ Len(parserCalls) = 1
                /\ result = Return(None)
           ELSE /\ Len(parserCalls) = 2
                /\ parserCalls[2].op = "parse"
                /\ parserCalls[2].content = parserCalls[1].returned
                /\ parserCalls[2].source = sources[1]
                /\ result = Return(parserCalls[2].returned)
                /\ result.value # None

\* a fetched page with an empty body was parsed and its document returned
C12_Witness ==
    /\ pc = "ingested"
    /\ Len(parserCalls) = 2
    /\ parserCalls[1].returned = EmptyPage
    /\ result = Return(ParsedDocument(sources[1], ""))

(***************************************************************************)
(* SpecThreads: get_parser / get_embedder called from several threads on    *)
(* one DataIngestor (ingestor.py 48-62). Neither method takes a lock, so a  *)
(* thread switch may fall between any two of its lines.                     *)
(***************************************************************************)
Threads == 1..MaxThreads

\* one caller: where it is in the method, what it called, what it got
Caller(at, op, tag, res) == [pc |-> at, op |-> op, tag |-> tag, result |-> res]
IdleCaller == Caller("idle", "none", "none", NoResult)

ThreadTags(op) == IF op = "get_parser" THEN {"html", "nonexistent"}
                  ELSE {"qdrant", "nonexistent"}

\* self._parsers or self._embedders
CacheOf(op) == IF op = "get_parser" THEN parsers ELSE embedders

\* get_parser_class(tag) or get_embedder_class(tag)
ClassOf(op, tag) == IF op = "get_parser" THEN GetParserClass(parserRegistry, tag)
                    ELSE GetEmbedderClass(embedderRegistry, tag)

InitThreads ==
    /\ pc = "threads"
    /\ threads = [t \in Threads |-> IdleCaller]
    /\ parsers = <<>> /\ embedders = <<>> /\ constructed = <<>> /\ config = NoConfig
    /\ sources = <<>> /\ max_depth = 0 /\ source_type = "html" /\ store_type = "qdrant"
    /\ collection = "documents"
    /\ collections = EmptyStore /\ calls = <<>> /\ batch_size = 1
    /\ documents = <<>> /\ result = NoResult /\ everStored = NothingStored
    /\ IdleRegistries /\ IdleCrawl /\ IdleHistory /\ IdleMain /\ IdleHtml /\ web = FreeWeb

ThreadFrame ==
    UNCHANGED <<registryVars, remoteVars, argVars, crawlVars, historyVars,
                parserCalls, pc, batch_size, everStored, documents, result,
                mainVars, htmlVars, web, config>>

\* thread t enters get_parser(tag) or get_embedder(tag)
ThreadCall(t) ==
    /\ threads[t].pc = "idle"
    /\ \E op \in {"get_parser", "get_embedder"} :
         \E tag \in ThreadTags(op) :
            threads' = [threads EXCEPT ![t] = Caller("check", op, tag, NoResult)]
    /\ UNCHANGED cacheVars
    /\ ThreadFrame

\* lines 50 / 58: if tag not in the cache
ThreadCheck(t) ==
    /\ threads[t].pc = "check"
    /\ threads' = [threads EXCEPT ![t].pc =
                       IF threads[t].tag \in DOMAIN CacheOf(threads[t].op)
                       THEN "return" ELSE "create"]
    /\ UNCHANGED cacheVars
    /\ ThreadFrame

\* lines 51-53 / 59-61: look the class up, construct, put into the cache
ThreadCreate(t) ==
    /\ threads[t].pc = "create"
    /\ LET op == threads[t].op
           tag == threads[t].tag
           classResult == ClassOf(op, tag)
           instance == Construct(classResult.value, Len(constructed) + 1,
                                 ConfigGet(config, tag))
       IN  IF classResult.kind = "raise" \/ instance.kind = "raise"
           THEN /\ threads' = [threads EXCEPT ![t] =
                                  Caller("done", op, tag,
                                         IF classResult.kind = "raise"
                                         THEN classResult ELSE instance)]
                /\ UNCHANGED cacheVars
           ELSE /\ threads' = [threads EXCEPT ![t].pc = "return"]
                /\ constructed' = Append(constructed, instance.value)
                /\ IF op = "get_parser"
                   THEN parsers' = Cached(parsers, tag, instance.value) /\ UNCHANGED embedders
                   ELSE embedders' = Cached(embedders, tag, instance.value) /\ UNCHANGED parsers
    /\ ThreadFrame

\* lines 54 / 62: return the cache entry
ThreadReturn(t) ==
    /\ threads[t].pc = "return"
    /\ threads' = [threads EXCEPT ![t] =
                       Caller("done", threads[t].op, threads[t].tag,
                              Return(CacheOf(threads[t].op)[threads[t].tag]))]
    /\ UNCHANGED cacheVars
    /\ ThreadFrame

NextThreads ==
    \E t \in Threads :
        ThreadCall(t) \/ ThreadCheck(t) \/ ThreadCreate(t) \/ ThreadReturn(t)

SpecThreads == InitThreads /\ [][NextThreads]_vars

\* C17: whatever the interleaving of the callers, at most one instance is
\* constructed per type tag, and all callers of the same method with the
\* same tag get the same instance.
C17_OneInstancePerTag ==
    /\ \A i, j \in DOMAIN constructed :
          constructed[i].cls = constructed[j].cls => i = j
    /\ \A t, u \in DOMAIN threads :
          (/\ threads[t].pc = "done" /\ threads[u].pc = "done"
           /\ threads[t].op = threads[u].op
           /\ threads[t].tag = threads[u].tag) =>
              threads[t].result = threads[u].result

(***************************************************************************)
(* SpecMain: the command line entry point (ingestor.py 190-243), with the   *)
(* crawl or ingest run it starts                                            *)
(***************************************************************************)
\* what str.strip() removes
Whitespace == {" ", "\n"}

RECURSIVE LStrip(_)
LStrip(s) == IF s # <<>> /\ Head(s) \in Whitespace THEN LStrip(Tail(s)) ELSE s

RECURSIVE RStrip(_)
RStrip(s) ==
    IF s # <<>> /\ s[Len(s)] \in Whitespace THEN RStrip(SubSeq(s, 1, Len(s) - 1)) ELSE s

Strip(s) == RStrip(LStrip(s))

\* line 221: line.strip() for line in f if line.strip()
FileSources(lines) ==
    LET kept == SelectSeq(lines, LAMBDA line : Strip(line) # <<>>)
    IN  [i \in DOMAIN kept |-> Strip(kept[i])]

\* the lines a source file is made of: blank ones, and one naming a URL
FileLines == {<<"\n">>, <<" ", "\n">>, <<" ">> \o UrlElse \o <<"\n">>}

\* args.file: absent without -f, else a file made of lines
NoFile == [given |-> FALSE, lines |-> <<>>]
File(lines) == [given |-> TRUE, lines |-> lines]

\* parser.parse_args()
Namespace(positional, file, recursive, depth) ==
    [sources |-> positional, file |-> file, recursive |-> recursive, depth |-> depth,
     type |-> "html", store |-> "qdrant", collection |-> "documents"]

CommandLines ==
    {Namespace(positional, file, recursive, 0) :
        positional \in SeqsUpTo({UrlIntro}, MaxPositional),
        file \in {NoFile} \cup {File(lines) : lines \in SeqsUpTo(FileLines, MaxLines)},
        recursive \in BOOLEAN}

InitMain ==
    /\ pc = "main"
    /\ args \in CommandLines
    /\ mainCalls = <<>>
    /\ sources = <<>> /\ max_depth = 0 /\ source_type = "html" /\ store_type = "qdrant"
    /\ collection = "documents"
    /\ collections = EmptyStore /\ calls = <<>> /\ batch_size = MaxBatch
    /\ documents = <<>> /\ result = NoResult /\ everStored = NothingStored
    /\ IdleRegistries /\ IdleCaches /\ IdleCrawl /\ IdleHistory /\ IdleHtml
    /\ web = FreeWeb

MainFrame ==
    UNCHANGED <<registryVars, cacheVars, remoteVars, crawlVars, historyVars,
                callerVars, htmlVars, web, config, args, batch_size, everStored, documents>>

\* lines 218-221: sources = positional arguments, then the lines of the file
MainCollect ==
    /\ pc = "main"
    /\ sources' = args.sources
                   \o (IF args.file.given THEN FileSources(args.file.lines) ELSE <<>>)
    /\ pc' = "collected"
    /\ UNCHANGED <<max_depth, source_type, store_type, collection, mainCalls, result>>
    /\ MainFrame

\* line 223: if not sources
NoSources(srcs) == srcs = <<>>

\* line 227: if args.recursive
ModeFlat(recursive) == "ingest"

Mode(recursive) == IF recursive THEN "crawl" ELSE "ingest"

\* lines 223-241: print the help and return, or call crawl or ingest
MainDispatch ==
    /\ pc = "collected"
    /\ IF NoSources(sources)
       THEN /\ mainCalls' = Append(mainCalls, "print_help")
            /\ pc' = "exit"
            /\ result' = Return(None)
            /\ UNCHANGED <<max_depth, source_type, store_type, collection>>
       ELSE /\ mainCalls' = Append(mainCalls, Mode(args.recursive))
            /\ pc' = Mode(args.recursive)
            /\ max_depth' = args.depth
            /\ source_type' = args.type
            /\ store_type' = args.store
            /\ collection' = args.collection
            /\ UNCHANGED result
    /\ UNCHANGED sources
    /\ MainFrame

\* line 243: the run has returned its count
MainExit ==
    /\ pc = "done"
    /\ pc' = "exit"
    /\ UNCHANGED <<argVars, mainCalls, result>>
    /\ MainFrame

NextMain == MainCollect \/ MainDispatch \/ MainExit \/ NextCrawl \/ NextIngest

SpecMain == InitMain /\ [][NextMain]_vars

\* no positional source and no non-blank line of a source file
NoSourcesGiven ==
    /\ args.sources = <<>>
    /\ \A i \in DOMAIN args.file.lines :
          Range(args.file.lines[i]) \subseteq Whitespace

CrawlPositions == {"crawl", "prefixes", "loop", "fetch"}
IngestPositions == {"ingest", "sources"}

\* C21: main, given no source, prints the help and returns with nothing
\* raised and without a crawl or ingest run; given a source it calls exactly
\* one of the two, crawl when the recursive flag is set and ingest otherwise.
C21_MainDispatch ==
    /\ Len(mainCalls) <= 1
    /\ pc \in {"main", "collected"} => mainCalls = <<>>
    /\ pc \notin {"main", "collected"} =>
          mainCalls = IF NoSourcesGiven THEN <<"print_help">>
                      ELSE IF args.recursive THEN <<"crawl">> ELSE <<"ingest">>
    /\ mainCalls = <<"print_help">> =>
          /\ pc = "exit" /\ result = Return(None)
          /\ parsers = <<>> /\ embedders = <<>>
          /\ fetchLog = <<>> /\ storeLog = <<>>
    /\ mainCalls = <<"crawl">> => pc \notin IngestPositions
    /\ mainCalls = <<"ingest">> =>
          pc \notin CrawlPositions /\ queue = <<>> /\ seed_prefixes = <<>>

\* a source file of one blank line and no positional source: help printed
C21_Witness ==
    /\ pc = "exit"
    /\ args.sources = <<>>
    /\ args.file = File(<< <<"\n">> >>)
    /\ mainCalls = <<"print_help">>

(***************************************************************************)
(* SpecHtml: an HTMLParser is constructed from its configuration and its    *)
(* parse and extract_links are called (html_parser.py 25-44, 68-113,        *)
(* 140-160).                                                                *)
(*                                                                          *)
(* Markup is a sequence of elements, an element has a tag, a text of its    *)
(* own ("" when it has no text node) and child elements after that text.    *)
(* Extracted text is the sequence of its stripped non-empty text nodes,     *)
(* which get_text joins.                                                    *)
(***************************************************************************)
Element(tag, text, kids) == [tag |-> tag, text |-> text, kids |-> kids]

\* the exclude_elements argument: not given, or a list of tags
NotGiven == [given |-> FALSE, list |-> <<>>]
Given(list) == [given |-> TRUE, list |-> list]

DefaultExclude == <<"script", "style", "nav", "footer", "header", "aside">>

\* line 40: exclude_elements or [...]
ExcludeElements(configured) ==
    IF ~configured.given \/ configured.list = <<>> THEN DefaultExclude
    ELSE configured.list

\* lines 82-83: decompose every element whose tag is excluded
Decompose(markup, exclude) ==
    LET top == SelectSeq(markup, LAMBDA e : e.tag \notin exclude)
    IN  [i \in DOMAIN top |->
            Element(top[i].tag, top[i].text,
                    SelectSeq(top[i].kids, LAMBDA k : k.tag \notin exclude))]

\* the elements of the markup in document order
RECURSIVE Flatten(_)
Flatten(markup) ==
    IF markup = <<>> THEN <<>>
    ELSE <<Head(markup)>> \o Flatten(Head(markup).kids) \o Flatten(Tail(markup))

\* soup.find(tag): the first such element as a one-element sequence, or <<>>
Find(markup, tag) ==
    LET found == SelectSeq(Flatten(markup), LAMBDA e : e.tag = tag)
    IN  IF found = <<>> THEN <<>> ELSE <<Head(found)>>

\* str.strip() of a text node
StripText(text) == IF text = " " THEN "" ELSE text

\* Tag.string: the only text node below, through only children, else none
RECURSIVE StringOf(_)
StringOf(e) ==
    IF e.text # "" /\ e.kids = <<>> THEN <<e.text>>
    ELSE IF e.text = "" /\ Len(e.kids) = 1 THEN StringOf(e.kids[1])
    ELSE <<>>

\* get_text(strip=True): the stripped non-empty text nodes, in order
RECURSIVE GetText(_)
GetText(markup) ==
    IF markup = <<>> THEN <<>>
    ELSE LET e == Head(markup)
         IN  (IF StripText(e.text) # "" THEN <<StripText(e.text)>> ELSE <<>>)
             \o GetText(e.kids) \o GetText(Tail(markup))

\* _extract_title (lines 98-105)
ExtractTitle(soup) ==
    LET title == Find(soup, "title")
        h1 == Find(soup, "h1")
    IN  IF title # <<>> /\ StringOf(title[1]) # <<>>
        THEN (IF StripText(StringOf(title[1])[1]) # ""
              THEN <<StripText(StringOf(title[1])[1])>> ELSE <<>>)
        ELSE IF h1 # <<>> THEN GetText(h1)
        ELSE <<>>

\* _extract_content (lines 107-113); a Tag is truthy even when empty
ExtractContentArticleFirst(soup) ==
    LET main == Find(soup, "main")
        article == Find(soup, "article")
        body == Find(soup, "body")
        main_content == IF article # <<>> THEN article
                        ELSE IF main # <<>> THEN main ELSE body
    IN  IF main_content # <<>> THEN GetText(main_content) ELSE GetText(soup)

ExtractContent(soup) ==
    LET main == Find(soup, "main")
        article == Find(soup, "article")
        body == Find(soup, "body")
        main_content == IF main # <<>> THEN main
                        ELSE IF article # <<>> THEN article ELSE body
    IN  IF main_content # <<>> THEN GetText(main_content) ELSE GetText(soup)

\* HTMLParser.parse (lines 79-96), without metadata and timestamp
ParseHtml(content, source, exclude) ==
    LET soup == Decompose(content, Range(exclude))
    IN  [source |-> source, title |-> ExtractTitle(soup),
         content |-> ExtractContent(soup), source_type |-> "html"]

\* the elements markup is made of, each text node with a text of its own
Elements ==
    {Element("title", "", <<>>), Element("title", " ", <<>>),
     Element("title", "T", <<>>),
     Element("h1", "H", <<>>),
     Element("nav", "", <<Element("h1", "N", <<>>)>>),
     Element("main", "M", <<>>),
     Element("main", "", <<>>),
     Element("article", "A", <<Element("script", "S", <<>>)>>),
     Element("body", "B", <<Element("main", "W", <<>>)>>),
     Element("body", "D", <<Element("header", "E", <<>>)>>),
     Element("p", "P", <<>>),
     Element("style", "Y", <<>>)}

Markups == SeqsUpTo(Elements, MaxElements)

ExcludeConfigs ==
    {NotGiven, Given(<<>>), Given(<<"nav">>), Given(<<"title", "main">>)}

InitHtml ==
    /\ pc = "html"
    /\ parser_config \in ExcludeConfigs
    /\ lastResponse = None /\ exclude_elements = None /\ html = None
    /\ sources = <<>> /\ max_depth = 0 /\ source_type = "html" /\ store_type = "qdrant"
    /\ collection = "documents"
    /\ collections = EmptyStore /\ calls = <<>> /\ batch_size = 1
    /\ documents = <<>> /\ result = NoResult /\ everStored = NothingStored
    /\ IdleRegistries /\ IdleCaches /\ IdleCrawl /\ IdleHistory /\ IdleMain
    /\ web = FreeWeb

HtmlFrame ==
    UNCHANGED <<registryVars, cacheVars, remoteVars, max_depth, source_type,
                store_type, collection, crawlVars, historyVars, callerVars, mainVars,
                lastResponse, parser_config, web, config, batch_size, everStored, documents>>

\* HTMLParser(**parser_config)
HtmlConstruct ==
    /\ pc = "html"
    /\ exclude_elements' = ExcludeElements(parser_config)
    /\ pc' = "constructed"
    /\ UNCHANGED <<sources, html, result>>
    /\ HtmlFrame

\* parser.parse(content, source)
HtmlParseCall ==
    /\ pc = "constructed"
    /\ \E content \in Markups :
         /\ html' = content
         /\ sources' = <<UrlIntro>>
         /\ result' = Return(ParseHtml(content, UrlIntro, exclude_elements))
    /\ pc' = "parsed"
    /\ UNCHANGED exclude_elements
    /\ HtmlFrame

\* href values: absolute ones, and ones relative to the page
UrlRelative == <<"i">>                                \* i
UrlRooted == <<"/", "e">>                             \* /e
UrlAnchor == <<"#", "f">>                             \* #f
LinkHrefs == Hrefs \cup {UrlRelative, UrlRooted, UrlAnchor, <<>>}

\* HTMLParser.extract_links(html, base_url)
ExtractLinksCall ==
    /\ pc = "constructed"
    /\ \E hrefs \in SeqsUpTo(LinkHrefs, MaxLinks), base \in {UrlIntro, UrlDocs} :
         /\ html' = Page("body", hrefs)
         /\ sources' = <<base>>
         /\ result' = Return(ExtractLinks(Page("body", hrefs), base))
    /\ pc' = "links"
    /\ UNCHANGED exclude_elements
    /\ HtmlFrame

NextHtml == HtmlConstruct \/ HtmlParseCall \/ ExtractLinksCall

SpecHtml == InitHtml /\ [][NextHtml]_vars

\* the text nodes of the markup
AllTexts(markup) == {e.text : e \in Range(Flatten(markup))} \ {""}

\* the text nodes inside elements of an excluded kind
ExcludedTexts(markup, exclude) ==
    UNION {AllTexts(<<e>>) : e \in {x \in Range(Flatten(markup)) : x.tag \in exclude}}

\* C23: parse, after removing the excluded elements, takes as title the text
\* of <title> when it has one, else the text of the first <h1>, else the
\* empty string; as content the text of <main>, else of <article>, else of
\* <body>, else of all that remains; and no text from inside an excluded
\* element is in the title or the content.
C23_ExtractionPriority ==
    pc = "parsed" =>
        LET exclude == Range(exclude_elements)
            kept == Decompose(html, exclude)
            title == Find(kept, "title")
            h1 == Find(kept, "h1")
            main == Find(kept, "main")
            article == Find(kept, "article")
            body == Find(kept, "body")
            doc == result.value
        IN  /\ doc.title =
                  IF title # <<>> /\ title[1].text # ""
                  THEN GetText(title)
                  ELSE IF h1 # <<>> THEN GetText(h1)
                  ELSE <<>>
            /\ doc.content =
                  IF main # <<>> THEN GetText(main)
                  ELSE IF article # <<>> THEN GetText(article)
                  ELSE IF body # <<>> THEN GetText(body)
                  ELSE GetText(kept)
            /\ (Range(doc.title) \cup Range(doc.content))
                  \cap ExcludedTexts(html, exclude) = {}

\* markup whose only <h1> is inside a <nav> and whose <body> holds a <main>,
\* parsed with the default exclusions: no title, the content of <main>
C23_Witness ==
    /\ pc = "parsed"
    /\ exclude_elements = DefaultExclude
    /\ html = <<Element("nav", "", <<Element("h1", "N", <<>>)>>),
                Element("body", "B", <<Element("main", "W", <<>>)>>)>>
    /\ result.value.title = <<>>
    /\ result.value.content = <<"W">>

\* C24: the element kinds an HTMLParser removes are the configured exclude
\* list whenever one is supplied, the empty list included, and the default
\* list only when none is supplied.
C24_ConfiguredExcludeSet ==
    LET expected == IF parser_config.given THEN parser_config.list ELSE DefaultExclude
    IN  /\ pc # "html" => exclude_elements = expected
        /\ pc = "parsed" => result.value = ParseHtml(html, sources[1], expected)

\* the links are the resolved, fragment-free hrefs that are http(s) URLs
ResolvedHref(base, href) == UrlDefrag(UrlJoin(base, href))
IsHttpUrl(url) == StartsWith(url, Http) \/ StartsWith(url, Https)

\* the position in hrefs of the first href that resolves to url
FirstOccurrence(hrefs, base, url) ==
    CHOOSE i \in DOMAIN hrefs :
        /\ ResolvedHref(base, hrefs[i]) = url
        /\ \A j \in 1..(i - 1) : ResolvedHref(base, hrefs[j]) # url

\* C25: extract_links returns exactly the http / https URLs among the hrefs
\* resolved against the base URL and stripped of their fragment, each URL
\* once, in the order of their first occurrence on the page.
C25_ExtractLinks ==
    pc = "links" =>
        LET hrefs == html.hrefs
            base == sources[1]
            links == result.value
        IN  /\ NoDuplicates(links)
            /\ Range(links) = {url \in {ResolvedHref(base, h) : h \in Range(hrefs)} :
                                  IsHttpUrl(url)}
            /\ \A i \in DOMAIN links : "#" \notin Range(links[i])
            /\ \A i, j \in DOMAIN links :
                  i < j => FirstOccurrence(hrefs, base, links[i])
                             < FirstOccurrence(hrefs, base, links[j])

\* a page at https://x/d/ whose two anchors are #f and https://x/d/#f has
\* the single link https://x/d/
C25_Witness ==
    /\ pc = "links"
    /\ sources = <<UrlDocs>>
    /\ html.hrefs = <<UrlAnchor, UrlFragment>>
    /\ result = Return(<<UrlDocs>>)

(***************************************************************************)
(* What crawl stores and returns                                           *)
(***************************************************************************)
\* the sum of what the store calls of a log returned
RECURSIVE StoredSum(_)
StoredSum(log) ==
    IF log = <<>> THEN 0
    ELSE (IF Head(log).result.kind = "return" THEN Head(log).result.value ELSE 0)
         + StoredSum(Tail(log))

\* C31: in a crawl run every store call carries exactly one document, the one
\* parsed from the page just fetched, and is made before the next frontier
\* entry is dequeued; crawl returns the sum of the store results, which is the
\* number of distinct URLs fetched successfully when every store returned 1.
C31_CrawlStoresEachPage ==
    /\ [](\A i \in DOMAIN storeLog : Len(storeLog[i].documents) = 1)
    /\ [][storeLog' # storeLog =>
            /\ ProcessStep
            /\ Len(storeLog') = Len(storeLog) + 1
            /\ SubSeq(storeLog', 1, Len(storeLog)) = storeLog
            /\ storeLog'[Len(storeLog')].documents[1].source = cur[1]
            /\ fetchLog'[Len(fetchLog')] = FetchEntry(cur[1], EmptyPage)]_vars
    /\ [][cur' # cur => storeLog' = storeLog]_vars
    /\ [](pc = "done" =>
            /\ result = Return(StoredSum(storeLog))
            /\ (\A i \in DOMAIN storeLog : storeLog[i].result = Return(1))
                 => result.value = Cardinality(Range(FetchedOk(fetchLog))))

\* a run over two pages has returned 2
C31_Witness ==
    /\ pc = "done"
    /\ Len(storeLog) = 2
    /\ result = Return(2)

(***************************************************************************)
(* The instance caches of one DataIngestor, calls made one at a time        *)
(***************************************************************************)
\* a cache keeps every entry it has
KeepsEntries(cache, next) ==
    \A tag \in DOMAIN cache : tag \in DOMAIN next /\ next[tag] = cache[tag]

\* the step constructed the instance of tag in the cache, from the tag's
\* sub-section
ConstructedFor(cache, next, tag) ==
    /\ tag \notin DOMAIN cache
    /\ tag \in DOMAIN next
    /\ constructed' = Append(constructed, next[tag])
    /\ next[tag].kwargs = (IF tag \in DOMAIN config THEN config[tag].kwargs ELSE <<>>)

\* C32: with get_parser and get_embedder called one at a time, an instance is
\* constructed only on a request for a tag that has none, from that tag's
\* configuration sub-section; there is one instance per cached tag; a cache
\* entry is never replaced and every call that returns, returns the tag's
\* entry; a call that raises leaves the caches as they were.
C32_MemoizedInstances ==
    /\ [][constructed' # constructed =>
            \/ pc' = "get_parser" /\ ConstructedFor(parsers, parsers', source_type')
            \/ pc' = "get_embedder" /\ ConstructedFor(embedders, embedders', store_type')]_vars
    /\ [][KeepsEntries(parsers, parsers') /\ KeepsEntries(embedders, embedders')]_vars
    /\ [](Len(constructed) = Cardinality(DOMAIN parsers) + Cardinality(DOMAIN embedders))
    /\ []((pc = "get_parser" /\ result.kind = "return") =>
            result.value = parsers[source_type])
    /\ []((pc = "get_embedder" /\ result.kind = "return") =>
            result.value = embedders[store_type])
    /\ [][(pc' \in {"get_parser", "get_embedder"} /\ result'.kind = "raise") =>
            UNCHANGED cacheVars]_vars

\* the parser was constructed first, from its sub-section, then the embedder;
\* a later get_parser("html") returned instance 1
C32_Witness ==
    /\ pc = "get_parser"
    /\ source_type = "html"
    /\ "html" \in DOMAIN config
    /\ config["html"] = Section(<< <<"user_agent", "bot">> >>)
    /\ Len(constructed) = 2
    /\ result = Return([cls |-> "HTMLParser", serial |-> 1,
                        kwargs |-> << <<"user_agent", "bot">> >>])

\* C33: the parser and embedder registries are immutable after the initial
\* discovery: no class lookup, no listing of the supported tags and no
\* get_parser or get_embedder adds, removes or replaces a registry entry,
\* whatever the discovery registered.
C33_RegistriesImmutable == [][UNCHANGED registryVars]_vars

(***************************************************************************)
(* SpecPlugin: crawl with a parser that is not an HTMLParser.  Discovery     *)
(* registers every BaseParser subclass of the parsers package; here the     *)
(* package holds a second parser, registered under "markdown", whose fetch  *)
(* yields what HTMLParser.fetch yields.                                     *)
(***************************************************************************)
PluginParsers == DiscoveredParsers \o <<Entry("markdown", "MarkdownParser")>>

InitPlugin ==
    /\ pc = "crawl"
    /\ web \in Webs
    /\ sources \in WebSeeds
    /\ max_depth \in 0..MaxDepth
    /\ source_type = "markdown" /\ store_type = "qdrant"
    /\ collection = "documents"
    /\ collections = EmptyStore /\ calls = <<>> /\ batch_size = MaxBatch
    /\ documents = <<>> /\ result = NoResult /\ everStored = NothingStored
    /\ parserRegistry = PluginParsers
    /\ embedderRegistry = <<Entry("qdrant", "QdrantEmbedder")>>
    /\ IdleCaches /\ IdleCrawl /\ IdleHistory /\ IdleMain /\ IdleHtml

SpecPlugin == InitPlugin /\ [][NextCrawl]_vars

\* C34: when crawl runs with a parser that is not an HTMLParser, no link is
\* enqueued: every frontier entry and every dequeued entry is a seed at depth
\* 0, and only seeds are fetched, whatever max_depth is.
C34_NoLinksWithoutHtmlParser ==
    (source_type \in DOMAIN parsers /\ parsers[source_type].cls # "HTMLParser") =>
        /\ \A i \in DOMAIN queue : queue[i][2] = 0 /\ queue[i][1] \in Range(sources)
        /\ cur # <<>> => cur[2] = 0
        /\ Range(Fetched(fetchLog)) \subseteq Range(sources)
        /\ Len(queue) + Len(fetchLog) <= Len(sources)

\* a run with max_depth 2 has ended having fetched and stored only its seed,
\* whose page links to https://x/d/ within the seed's scope
C34_Witness ==
    /\ pc = "done"
    /\ parsers["markdown"].cls = "MarkdownParser"
    /\ max_depth = 2
    /\ sources = <<UrlElse>>
    /\ LinksOf(UrlElse) = {UrlDocs}
    /\ Fetched(fetchLog) = <<UrlElse>>
    /\ Len(storeLog) = 1

(***************************************************************************)
(* Documents of empty pages                                                *)
(***************************************************************************)
\* C35: a fetch that succeeds always yields a document that is handed to the
\* store, also when the page is empty; a fetch that fails yields none.  In a
\* crawl run the documents handed to the store calls are those of the
\* successful fetches, in order; in a flat ingest run the collected documents
\* are, and a run that returns has handed all of them to its one store call.
C35_EmptyDocumentsStored ==
    fetchLog # <<>> =>
        IF visited # {}
        THEN LoggedSources(storeLog) = FetchedOk(fetchLog)
        ELSE /\ [i \in DOMAIN documents |-> documents[i].source] = FetchedOk(fetchLog)
             /\ (pc = "done" /\ documents # <<>>) =>
                   storeLog = <<StoreEntry(documents, collection, result)>>

\* a flat ingest of one source whose page is the empty string has stored its
\* document
C35_Witness ==
    /\ pc = "done"
    /\ visited = {}
    /\ sources = <<UrlIntro>>
    /\ storeLog = <<StoreEntry(<<ParsedDocument(UrlIntro, "")>>, collection, Return(1))>>

(***************************************************************************)
(* A store fault in the middle of a run                                    *)
(***************************************************************************)
\* the collection holds the record of source
HoldsRecord(colls, name, source) ==
    /\ name \in DOMAIN colls
    /\ GenerateId(source) \in DOMAIN colls[name].points
    /\ colls[name].points[GenerateId(source)].payload.source = source

\* C36: when an upsert of a store call fails, the run raises that fault and
\* returns no count, and nothing is rolled back: the records of the batches
\* the call upserted before the fault, and the records of every store call
\* of the run that returned, are in the collection.
C36_NoRollback ==
    (/\ pc = "raised"
     /\ storeLog # <<>>
     /\ storeLog[Len(storeLog)].result.kind = "raise"
     /\ storeLog[Len(storeLog)].result.fault.call = "upsert") =>
        /\ result = storeLog[Len(storeLog)].result
        /\ calls[Len(calls)].op = "upsert"
        /\ \A source \in Range(UpsertedSources(SubSeq(calls, 1, Len(calls) - 1)))
                          \cup Range(LoggedSources(SubSeq(storeLog, 1, Len(storeLog) - 1))) :
              HoldsRecord(collections, collection, source)

\* a flat ingest of two sources with batches of one has failed at its second
\* upsert
C36_Witness ==
    /\ pc = "raised"
    /\ visited = {}
    /\ batch_size = 1
    /\ Len(documents) = 2
    /\ documents[1].source # documents[2].source
    /\ result.kind = "raise"
    /\ Len(calls) >= 2
    /\ calls[Len(calls)].op = "upsert"
    /\ calls[Len(calls) - 1].op = "upsert"
    /\ HoldsRecord(collections, collection, documents[1].source)

(***************************************************************************)
(* Repeated sources in a flat ingest                                       *)
(***************************************************************************)
\* C37: flat ingest does not deduplicate its sources: the fetches are the
\* listed sources, in order and as often as listed; every successful fetch
\* contributes a document to the one store batch; and the count a run returns
\* is the number of documents of the batch, which can exceed the number of
\* distinct records the batch wrote.
C37_IngestNoDedup ==
    /\ Fetched(fetchLog) = SubSeq(sources, 1, Len(fetchLog))
    /\ [i \in DOMAIN documents |-> documents[i].source] = FetchedOk(fetchLog)
    /\ (pc = "done" /\ documents # <<>>) =>
          /\ Len(storeLog) = 1
          /\ storeLog[1].documents = documents
          /\ result = Return(Len(documents))
          /\ Cardinality(Range(UpsertedSources(calls))) <= Len(documents)
          /\ \A i \in DOMAIN documents :
                HoldsRecord(collections, collection, documents[i].source)

\* the same source listed twice was fetched twice, the run returned 2 and
\* the collection holds one record
C37_Witness ==
    /\ pc = "done"
    /\ sources = <<UrlIntro, UrlIntro>>
    /\ Fetched(fetchLog) = <<UrlIntro, UrlIntro>>
    /\ result = Return(2)
    /\ Cardinality(DOMAIN collections[collection].points) = 1

====
